---- MODULE Spec2Model ----
(***************************************************************************)
(* Session brokers of ni/arbitrary-session-management as a state machine.  *)
(*                                                                         *)
(* One servicer instance is modelled per behaviour; the variable svc names *)
(* the variant: "json" is JsonFileLoggerServicer (file_session_sharing),   *)
(* "file" is FileLoggerServicer (file_logger_service, no lock), "device"   *)
(* is DeviceCommServicer (custom_instr_session_sharing).  Every RPC runs   *)
(* on a worker thread; a handler is split into steps at each point where   *)
(* it touches shared state (the sessions dict, a file handle, a session's  *)
(* register_data, the lock), so the interleavings of the thread pool are   *)
(* the interleavings of the steps.  context.abort raises: a handler ends   *)
(* there, unless the abort sits inside a try whose "except Exception"      *)
(* catches it and aborts again with INTERNAL.                              *)
(***************************************************************************)
EXTENDS Integers, FiniteSets, Sequences, TLC

\* Worker threads serving RPCs concurrently.
NumThreads == 2
\* Sessions created over a run (uuid4 values drawn).
MaxSessions == 2

\* Client adapters that can be inside their "with" block at the same time.
NumScopes == 2

Threads == 1..NumThreads
Names == 1..MaxSessions
ScopeIds == 1..NumScopes

\* Python's None (an absent dict entry, a lookup that found nothing).
None == 0
\* A session name no Initialize ever produced ("invalid-session-id").
BogusName == -1

Services == {"json", "file", "device"}
LockedServices == {"json", "device"}

\* File paths given to InitializeFile; the suffix decides _valid_ndjson_file.
FilePaths == {"a.ndjson", "b.log", "c.csv"}
\* Resource names given to DeviceCommServicer.Initialize.
ResourceNames == {"dev1", "dev2"}
Keys == FilePaths \cup ResourceNames

\* request.initialization_behavior: the three enum values and an unknown one.
UNSPECIFIED == "UNSPECIFIED"
INITIALIZE_NEW == "INITIALIZE_NEW"
ATTACH_TO_EXISTING == "ATTACH_TO_EXISTING"
Behaviors == {UNSPECIFIED, INITIALIZE_NEW, ATTACH_TO_EXISTING, "UNKNOWN_ENUM"}

\* Register map files given to DeviceCommServicer.Initialize.
RegisterMapPaths == {"map.csv", "empty.csv", "map.txt", "missing.csv", "text.csv"}
RegisterNames == {"r1", "r2"}
RegisterValues == {0, 1}

\* A dict with no entries.
EmptyDict == [r \in {} |-> 0]

VARIABLES
    svc,            \* the servicer variant of this run
    serial,         \* TRUE: the client issues calls one at a time
    sessions,       \* self.sessions: key -> session (by its name), or None
    file_handle,    \* Session.file_handle of each session: "none", "open", "closed"
    register_data,  \* Session.register_data of each session (device)
    lock,           \* self.lock: the holding thread, or None
    th,             \* each worker thread: its call, position, locals, response
    nextId,         \* the next uuid4 value
    keyOf,          \* history: the key each session was inserted under ("none": not yet)
    acked,          \* history: the session names a Close has returned Ack for
    pre,            \* history (serial runs): sessions as they were when the call began
    scope,          \* a client adapter used as a context manager ("with ... as client:")
    scopes,         \* the client adapters whose calls this server answers
    cleaned,        \* history: the session names a clean_up has removed
    last_write,     \* history (device): per open session, each register of its
                    \* register map with its default or the value last written
    server,         \* start_server: "serving", then "clean_up", "cleaned",
                    \* "stopping" (server.stop) and "stopped"
    adapter         \* one client adapter instance whose methods several callers
                    \* use: its _stub, its lock, each caller's position in
                    \* _get_stub

vars == <<svc, serial, sessions, file_handle, register_data, lock, th, nextId,
          keyOf, acked, pre, scope, scopes, cleaned, last_write, server, adapter>>

(***************************************************************************)
(* Worker threads                                                          *)
(***************************************************************************)
\* A thread with no call: pc "idle".  The request (op, key, beh, name) and the
\* response (code, rname, rnew, rval) of a call that has just returned stay
\* readable in the thread until the next step of the system.  The last five
\* fields are history: whether the request passed the handler's validation,
\* the registry entry of key when the call began, whether
\* a Close of name had already returned Ack then, whether the call has changed
\* the registry, a handle or a session's data, and whether another
\* INITIALIZE_NEW (for an AUTO call: AUTO) call for the same key, also begun on an unregistered key,
\* has returned a new session while this one was in flight with no entry of
\* the key removed since.  left holds the keys clean_up's loop has yet to
\* visit, wasCleaned whether a clean_up had removed name when the call began.
\* args says which argument of a GPIO request is out of range ("ok": none),
\* raised which exception the write of LogMeasurementData ended with.
IdleThread ==
    [pc |-> "idle", op |-> "none", key |-> "none", beh |-> "none", name |-> None,
     map |-> "none", reg |-> "none", val |-> 0, session |-> None,
     path |-> "none", code |-> "none", rname |-> None, rnew |-> FALSE,
     rval |-> 0, valid |-> FALSE, startEntry |-> None, wasAcked |-> FALSE,
     mutated |-> FALSE, rival |-> FALSE, left |-> {}, wasCleaned |-> FALSE,
     args |-> "none", raised |-> "none"]

InFlight(t) == th[t].pc # "idle"

\* The positions of an Initialize before it has drawn its uuid4.
BeforeUuid ==
    {"auto_get", "auto_check", "create_check", "create_check2",
     "create_open", "create_uuid"}

\* The thread pool hands a call to an idle worker (the lowest: workers are
\* interchangeable); in a serial run only when no other call is in flight.
CanStart(t) ==
    /\ th[t].pc = "idle"
    /\ server \notin {"stopping", "stopped"}
    /\ \A u \in Threads : u < t => InFlight(u)
    /\ serial => \A u \in Threads : th[u].pc = "idle"

\* An Initialize that may create begins only while a uuid4 value is left for it.
NameLeft ==
    nextId + Cardinality({u \in Threads : th[u].pc \in BeforeUuid}) <= MaxSessions

\* The request of a new call on thread t.
Request(t, op, key, beh, name, map, reg, val, pc) ==
    [IdleThread EXCEPT !.pc = pc, !.op = op, !.key = key, !.beh = beh,
                       !.name = name, !.map = map, !.reg = reg, !.val = val,
                       !.valid = TRUE,
                       !.startEntry = IF key \in Keys THEN sessions[key] ELSE None,
                       !.wasAcked = name \in acked,
                       !.wasCleaned = name \in cleaned]

\* The handler returns a response.
Return(t, name, new, val) ==
    [th[t] EXCEPT !.pc = "idle", !.session = None, !.path = "none", !.map = "none",
                  !.reg = "none", !.val = 0, !.args = "none", !.code = "OK",
                  !.rname = name, !.rnew = new, !.rval = val]

\* context.abort(code, ...): the handler ends with that status.
Abort(t, code) ==
    [th[t] EXCEPT !.pc = "idle", !.session = None, !.path = "none", !.map = "none",
                  !.reg = "none", !.val = 0, !.args = "none", !.code = code]

\* Session names a client can hold: those an Initialize has returned, and any
\* string that is no session name.
Returned == {n \in Names : keyOf[n] # "none"}
ClientNames == Returned \cup {BogusName}

\* A creating INITIALIZE_NEW call, begun while its key was unregistered.
RacingCreate(rec) ==
    /\ rec.op = "Initialize"
    /\ rec.beh = INITIALIZE_NEW
    /\ rec.startEntry = None

\* A client adapter (JsonLoggerClient, FileLoggerServiceClient,
\* DeviceCommunicationClient) whose calls this server answers.  phase: "none",
\* "init_call" (__init__ waits for Initialize), "open" (inside the with
\* block), "op_call" (a method of the with block waits for its RPC),
\* "close_call" (__exit__ waits for Close), "exited", "init_failed" (__init__
\* raised), "exit_failed" (__exit__ raised).  thread is the worker serving the
\* RPC it waits for.  opCode is the status code of the RpcError that a method
\* of the with block raised, closeCalls the Close RPCs
\* that __exit__ issued, error the status code of the RpcError that __init__
\* or __exit__ raised.  History: alone (no other adapter was constructed or
\* inside its with block during this one's life), wrote (the adapter has
\* been alone and a write of its with block succeeded) and prior (the adapter that
\* had left its with block last when this one was constructed, if that one
\* was alone and had the same key); opCode and prior are dropped when the
\* with block has been left.
Terminal == {"exited", "init_failed", "exit_failed"}

NoPrior ==
    [behavior |-> "none", phase |-> "none", session_name |-> None,
     new_session |-> FALSE, wrote |-> FALSE]

UnusedScope ==
    [client |-> "none", phase |-> "none", behavior |-> "none", key |-> "none",
     map |-> "none", sent |-> "none", session_name |-> None, new_session |-> FALSE,
     op |-> "none", reg |-> "none", val |-> 0, opCode |-> "none", wrote |-> FALSE,
     closeCalls |-> 0, error |-> "none", thread |-> None,
     alone |-> FALSE, prior |-> NoPrior]

Summary(s) ==
    [behavior |-> s.behavior, phase |-> s.phase,
     session_name |-> s.session_name, new_session |-> s.new_session,
     wrote |-> s.wrote]

\* An adapter whose __exit__ logs the RpcError of its Close and returns: what
\* error propagation rules out.
DeliverSwallowing(s, rec) ==
    CASE s.phase = "init_call" ->
           IF rec.code = "OK"
           THEN [s EXCEPT !.phase = "open", !.session_name = rec.rname,
                          !.new_session = rec.rnew, !.map = "none", !.thread = None]
           ELSE [s EXCEPT !.phase = "init_failed", !.error = rec.code,
                          !.map = "none", !.thread = None]
      [] s.phase = "op_call" ->
           [s EXCEPT !.phase = "open",
                     !.opCode = IF rec.code = "OK" THEN "none" ELSE rec.code,
                     !.wrote = s.alone /\ (@ \/ (rec.code = "OK" /\ s.op = "write")),
                     !.op = "none", !.reg = "none", !.val = 0, !.thread = None]
      [] s.phase = "close_call" ->
           [s EXCEPT !.phase = "exited", !.opCode = "none", !.prior = NoPrior,
                     !.thread = None]

\* The adapter gets the response rec of the RPC it waits for.  __init__ keeps
\* session_name and new_session, or re-raises the RpcError; a method of the
\* with block returns or re-raises; __exit__ returns or re-raises.
Deliver(s, rec) ==
    CASE s.phase = "init_call" ->
           IF rec.code = "OK"
           THEN [s EXCEPT !.phase = "open", !.session_name = rec.rname,
                          !.new_session = rec.rnew, !.map = "none", !.thread = None]
           ELSE [s EXCEPT !.phase = "init_failed", !.error = rec.code,
                          !.map = "none", !.thread = None]
      [] s.phase = "op_call" ->
           [s EXCEPT !.phase = "open",
                     !.opCode = IF rec.code = "OK" THEN "none" ELSE rec.code,
                     !.wrote = s.alone /\ (@ \/ (rec.code = "OK" /\ s.op = "write")),
                     !.op = "none", !.reg = "none", !.val = 0, !.thread = None]
      [] s.phase = "close_call" ->
           [s EXCEPT !.phase = IF rec.code = "OK" THEN "exited" ELSE "exit_failed",
                     !.error = IF rec.code = "OK" THEN "none" ELSE rec.code,
                     !.opCode = "none", !.prior = NoPrior, !.thread = None]

\* Only the adapter that left its with block last is remembered.
Settle(f, i) ==
    [j \in ScopeIds |->
       IF j # i /\ f[i].phase \in Terminal /\ f[j].phase \in Terminal
       THEN UnusedScope ELSE f[j]]

\* Worker t, serving the RPC of adapter i, takes a step that leaves it as rec.
Answered(i, rec) ==
    IF rec.pc = "idle"
    THEN Settle([scopes EXCEPT ![i] = Deliver(scopes[i], rec)], i)
    ELSE scopes

\* Adapter i sends an RPC (f: the adapters with i waiting for it); worker t
\* takes it up and is left as rec.
Taken(f, i, t, rec) ==
    IF rec.pc = "idle"
    THEN Settle([f EXCEPT ![i] = Deliver(f[i], rec)], i)
    ELSE [f EXCEPT ![i].thread = t]

\* A creating AUTO call, begun while its key was unregistered.
RacingAuto(rec) ==
    /\ rec.op = "Initialize"
    /\ rec.beh = UNSPECIFIED
    /\ rec.startEntry = None

\* The rows of a register map file that have both columns, as
\* {Register Name: int(Default Data)}.
RegisterMap(map) ==
    IF map = "map.csv" THEN [r \in {"r1"} |-> 0] ELSE EmptyDict

\* Thread t takes a step that leaves it as rec.  The responses of earlier
\* calls are dropped, and the history fields are brought up to date (this is
\* the last conjunct of every action: it reads the step's new shared state).
Step(t, rec) ==
    LET changed == \/ sessions' # sessions
                   \/ file_handle' # file_handle
                   \/ register_data' # register_data
        created == /\ rec.pc = "idle"
                   /\ InFlight(t)
                   /\ (RacingCreate(rec) \/ RacingAuto(rec))
                   /\ rec.code = "OK"
                   /\ rec.rnew
        removed(k) == k \in Keys /\ sessions[k] # None /\ sessions'[k] = None
    IN  /\ th' = [u \in Threads |->
                    IF u = t THEN [rec EXCEPT !.mutated = @ \/ changed]
                    ELSE IF th[u].pc = "idle" THEN IdleThread
                    ELSE IF removed(th[u].key) THEN [th[u] EXCEPT !.rival = FALSE]
                    ELSE IF /\ created
                            /\ (RacingCreate(th[u]) \/ RacingAuto(th[u]))
                            /\ th[u].beh = rec.beh
                            /\ th[u].key = rec.key
                    THEN [th[u] EXCEPT !.rival = TRUE]
                    ELSE th[u]]
        /\ pre' = IF th[t].pc = "idle" /\ serial /\ DOMAIN scopes = {}
                  THEN [sessions |-> sessions, file_handle |-> file_handle,
                        register_data |-> register_data]
                  ELSE pre
        /\ UNCHANGED <<scope, adapter>>
        /\ cleaned' = IF th[t].pc = "cleanup_loop" /\ rec.pc = "idle"
                      THEN cleaned \cup {sessions[k] : k \in {j \in Keys : sessions[j] # None}}
                      ELSE cleaned
        /\ last_write' =
             [n \in Names |->
                IF register_data'[n] = EmptyDict
                THEN EmptyDict
                ELSE IF th[t].pc = "create_insert" /\ th[t].session = n
                THEN RegisterMap(th[t].map)
                ELSE IF /\ th[t].pc = "write_body" /\ th[t].session = n
                        /\ rec.code = "OK"
                        /\ th[t].reg \in DOMAIN last_write[n]
                THEN [last_write[n] EXCEPT ![th[t].reg] = th[t].val]
                ELSE last_write[n]]
        /\ IF th[t].pc = "idle" /\ rec.op = "clean_up"
           THEN TRUE   \* clean_up begins: its caller says on whose behalf
           ELSE server' = IF /\ server = "clean_up"
                             /\ th[t].op = "clean_up"
                             /\ rec.pc = "idle"
                          THEN "cleaned"
                          ELSE server
        /\ IF DOMAIN scopes = {}
           THEN UNCHANGED scopes
           ELSE IF th[t].pc = "idle"
           THEN TRUE   \* a new call: the adapter's step says whose it is
           ELSE IF \E i \in ScopeIds : scopes[i].thread = t
           THEN scopes' = Answered(CHOOSE i \in ScopeIds : scopes[i].thread = t, rec)
           ELSE UNCHANGED scopes

(***************************************************************************)
(* self.lock                                                               *)
(***************************************************************************)
\* "with self.lock:" around one dictionary operation is one step: the lock
\* is taken when free, the operation done and the lock released.  (Taking a
\* lock commutes with every step of another thread that does not use it.)
\* FileLoggerServicer has no lock.
LockFree == svc \in LockedServices => lock = None

\* The keys of self.sessions.
SessionsKeys == {k \in Keys : sessions[k] # None}

\* clean_up holds the lock over its whole loop: it takes it in a step of its
\* own (threading.Lock.acquire blocks while another thread holds the lock).
Acquire(t) ==
    /\ th[t].pc = "cleanup_lock"
    /\ lock = None
    /\ lock' = t
    /\ UNCHANGED <<svc, serial, sessions, file_handle, register_data, nextId, keyOf, acked>>
    /\ Step(t, [th[t] EXCEPT !.pc = "cleanup_loop", !.left = SessionsKeys])

(***************************************************************************)
(* JsonFileLoggerServicer and FileLoggerServicer                           *)
(***************************************************************************)
Suffix(path) ==
    CASE path = "a.ndjson" -> ".ndjson"
      [] path = "b.log" -> ".log"
      [] path = "c.csv" -> ".csv"

\* _valid_ndjson_file: the suffix, then every non-blank line of an existing
\* file parses as JSON (contentOk: what the file on disk holds).
ValidNdjsonFile(path, contentOk) ==
    /\ Suffix(path) \in {".ndjson", ".log", ".txt"}
    /\ contentOk

\* What open(file_path, "a+") can do.
OpenOutcomes == {"ok", "FileNotFoundError", "PermissionError", "OSError"}

\* The status _create_new_session aborts with when open raises.
OpenAbortCode(outcome) ==
    CASE outcome = "FileNotFoundError" -> "NOT_FOUND"
      [] outcome = "PermissionError" -> "PERMISSION_DENIED"
      [] OTHER -> "INTERNAL"

\* "session and not session.file_handle.closed" / "session and session.register_data"
SessionOpen(session) ==
    IF svc = "device"
    THEN DOMAIN register_data[session] # {}
    ELSE file_handle[session] # "closed"

\* A lookup that resolves every name an Initialize has returned, registered
\* or not: what the properties of closed names rule out.
GetSessionByNameEver(name) ==
    IF name \in Names /\ keyOf[name] # "none" THEN name ELSE None

\* _get_session_by_name: the file services skip sessions whose handle is closed.
GetSessionByName(name) ==
    IF \E k \in Keys : /\ sessions[k] # None
                       /\ sessions[k] = name
                       /\ (svc # "device" => file_handle[name] # "closed")
    THEN name
    ELSE None

\* _get_file_path_by_session_name / _get_resource_name_by_session
GetKeyByName(name) ==
    IF \E k \in Keys : sessions[k] # None /\ sessions[k] = name
    THEN CHOOSE k \in Keys : sessions[k] # None /\ sessions[k] = name
    ELSE "none"

\* A handler map that treats INITIALIZE_NEW as UNSPECIFIED: what the
\* INITIALIZE_NEW contract rules out.
HandlerNewAsAuto(beh) ==
    CASE beh = UNSPECIFIED -> "auto_get"
      [] beh = INITIALIZE_NEW -> "auto_get"
      [] beh = ATTACH_TO_EXISTING -> "attach_get"
      [] OTHER -> "none"

\* The handler map of InitializeFile / Initialize, as the position it leads to.
Handler(beh) ==
    CASE beh = UNSPECIFIED -> "auto_get"
      [] beh = INITIALIZE_NEW -> "create_check"
      [] beh = ATTACH_TO_EXISTING -> "attach_get"
      [] OTHER -> "none"

\* InitializeFile: validate the path (json only), pick the handler.
InitializeFile(t, path, beh) ==
    /\ svc \in {"json", "file"}
    /\ CanStart(t)
    /\ beh \in {UNSPECIFIED, INITIALIZE_NEW} => NameLeft
    /\ UNCHANGED <<svc, serial, sessions, file_handle, register_data, lock, nextId, keyOf, acked>>
    /\ \E contentOk \in BOOLEAN :
         LET req == Request(t, "Initialize", path, beh, None, "none", "none", 0, Handler(beh))
         IN  Step(t, IF svc = "json" /\ ~ValidNdjsonFile(path, contentOk)
                     THEN [req EXCEPT !.pc = "idle", !.valid = FALSE,
                                      !.code = "INVALID_ARGUMENT"]
                     ELSE IF Handler(beh) = "none"
                     THEN [req EXCEPT !.pc = "idle", !.code = "INVALID_ARGUMENT"]
                     ELSE req)

\* _auto_initialize_session: "with self.lock: session = self.sessions.get(key)"
AutoGet(t) ==
    /\ th[t].pc = "auto_get"
    /\ LockFree
    /\ UNCHANGED lock
    /\ UNCHANGED <<svc, serial, sessions, file_handle, register_data, nextId, keyOf, acked>>
    /\ Step(t, [th[t] EXCEPT !.session = sessions[th[t].key],
                             !.pc = IF sessions[th[t].key] = None
                                    THEN "create_check" ELSE "auto_check"])

\* _auto_initialize_session: the session it got is still open: return it.
AutoCheck(t) ==
    /\ th[t].pc = "auto_check"
    /\ UNCHANGED <<svc, serial, sessions, file_handle, register_data, lock, nextId, keyOf, acked>>
    /\ Step(t, IF SessionOpen(th[t].session)
               THEN Return(t, th[t].session, FALSE, 0)
               ELSE [th[t] EXCEPT !.pc = "create_check", !.session = None])

\* _create_new_session, once its check has passed: open the file (file
\* services) or draw the session name (device).
AfterCheck == IF svc = "device" THEN "create_uuid" ELSE "create_open"

\* _create_new_session: "key in self.sessions", read without the lock.
CreateCheck(t) ==
    /\ th[t].pc = "create_check"
    /\ UNCHANGED <<svc, serial, sessions, file_handle, register_data, lock, nextId, keyOf, acked>>
    /\ Step(t, [th[t] EXCEPT !.pc = IF sessions[th[t].key] # None
                                    THEN "create_check2" ELSE AfterCheck])

\* A check that drops the entry it reports as ALREADY_EXISTS: what the
\* property of failing Initialize calls rules out.
CreateCheck2Evicting(t) ==
    /\ th[t].pc = "create_check2"
    /\ sessions[th[t].key] # None
    /\ SessionOpen(sessions[th[t].key])
    /\ sessions' = [sessions EXCEPT ![th[t].key] = None]
    /\ UNCHANGED <<svc, serial, file_handle, register_data, lock, nextId, keyOf, acked>>
    /\ Step(t, Abort(t, "ALREADY_EXISTS"))

\* _create_new_session: "... and self.sessions[key] is open": ALREADY_EXISTS.
\* The entry may be gone by now: KeyError, outside any try (status UNKNOWN).
CreateCheck2(t) ==
    /\ th[t].pc = "create_check2"
    /\ UNCHANGED <<svc, serial, sessions, file_handle, register_data, lock, nextId, keyOf, acked>>
    /\ Step(t, IF sessions[th[t].key] = None
               THEN Abort(t, "UNKNOWN")
               ELSE IF SessionOpen(sessions[th[t].key])
               THEN Abort(t, "ALREADY_EXISTS")
               ELSE [th[t] EXCEPT !.pc = AfterCheck])

\* _create_new_session: open(file_path, "a+") and uuid.uuid4().
CreateOpen(t) ==
    /\ th[t].pc = "create_open"
    /\ svc \in {"json", "file"}
    /\ UNCHANGED <<svc, serial, sessions, register_data, lock, keyOf, acked>>
    /\ \E outcome \in OpenOutcomes :
         IF outcome = "ok"
         THEN /\ file_handle' = [file_handle EXCEPT ![nextId] = "open"]
              /\ nextId' = nextId + 1
              /\ Step(t, [th[t] EXCEPT !.session = nextId, !.pc = "create_insert"])
         ELSE /\ UNCHANGED <<file_handle, nextId>>
              /\ Step(t, Abort(t, OpenAbortCode(outcome)))

\* _create_new_session: "with self.lock: self.sessions[key] = Session(...)",
\* then the response with new_session=True.
CreateInsert(t) ==
    /\ th[t].pc = "create_insert"
    /\ LockFree
    /\ sessions' = [sessions EXCEPT ![th[t].key] = th[t].session]
    /\ keyOf' = [keyOf EXCEPT ![th[t].session] = th[t].key]
    /\ register_data' = IF svc = "device"
                        THEN [register_data EXCEPT ![th[t].session] = RegisterMap(th[t].map)]
                        ELSE register_data
    /\ UNCHANGED lock
    /\ UNCHANGED <<svc, serial, file_handle, nextId, acked>>
    /\ Step(t, Return(t, th[t].session, TRUE, 0))

\* _attach_existing_session: "with self.lock: session = self.sessions.get(key)"
AttachGet(t) ==
    /\ th[t].pc = "attach_get"
    /\ LockFree
    /\ UNCHANGED lock
    /\ UNCHANGED <<svc, serial, sessions, file_handle, register_data, nextId, keyOf, acked>>
    /\ Step(t, IF sessions[th[t].key] = None
               THEN Abort(t, "NOT_FOUND")
               ELSE [th[t] EXCEPT !.session = sessions[th[t].key], !.pc = "attach_check"])

\* _attach_existing_session: the session is open: return it; else NOT_FOUND.
AttachCheck(t) ==
    /\ th[t].pc = "attach_check"
    /\ UNCHANGED <<svc, serial, sessions, file_handle, register_data, lock, nextId, keyOf, acked>>
    /\ Step(t, IF SessionOpen(th[t].session)
               THEN Return(t, th[t].session, FALSE, 0)
               ELSE Abort(t, "NOT_FOUND"))

\* LogMeasurementData / LogData: the request arrives.
LogMeasurementData(t, name) ==
    /\ svc \in {"json", "file"}
    /\ CanStart(t)
    /\ name \in ClientNames
    /\ UNCHANGED <<svc, serial, sessions, file_handle, register_data, lock, nextId, keyOf, acked>>
    /\ Step(t, Request(t, "Operate", "none", "none", name, "none", "none", 0,
                       "log_get"))

\* LogMeasurementData: "with self.lock: session = self._get_session_by_name(...)"
\* A lookup that takes the session out of the registry.
LogGetPopping(t) ==
    /\ th[t].pc = "log_get"
    /\ LockFree
    /\ UNCHANGED lock
    /\ sessions' = [k \in Keys |-> IF sessions[k] = th[t].name THEN None ELSE sessions[k]]
    /\ UNCHANGED <<svc, serial, file_handle, register_data, nextId, keyOf, acked>>
    /\ Step(t, IF GetSessionByName(th[t].name) = None
               THEN Abort(t, "NOT_FOUND")
               ELSE [th[t] EXCEPT !.session = GetSessionByName(th[t].name),
                                  !.pc = "log_write"])

LogGet(t) ==
    /\ th[t].pc = "log_get"
    /\ LockFree
    /\ UNCHANGED lock
    /\ UNCHANGED <<svc, serial, sessions, file_handle, register_data, nextId, keyOf, acked>>
    /\ Step(t, IF GetSessionByName(th[t].name) = None
               THEN Abort(t, "NOT_FOUND")
               ELSE [th[t] EXCEPT !.session = GetSessionByName(th[t].name),
                                  !.pc = "log_write"])

\* What file_handle.write / flush can do on an open handle.
WriteOutcomes == {"ok", "OSError", "PermissionError"}

\* The status LogMeasurementData ends with when the write raises: the
\* "except OSError" clause comes first and PermissionError is an OSError.
WriteAbortCode(outcome) ==
    CASE outcome = "OSError" -> "INTERNAL"
      [] outcome = "PermissionError" -> "INTERNAL"
      [] OTHER -> "INTERNAL"

\* LogMeasurementData: write and flush, outside the lock.  Writing to a
\* closed handle raises ValueError ("except Exception": INTERNAL).
LogWrite(t) ==
    /\ th[t].pc = "log_write"
    /\ UNCHANGED <<svc, serial, sessions, file_handle, register_data, lock, nextId, keyOf, acked>>
    /\ \E outcome \in WriteOutcomes :
         Step(t, IF file_handle[th[t].session] = "closed"
                 THEN Abort(t, "INTERNAL")
                 ELSE IF outcome = "ok"
                 THEN Return(t, None, FALSE, 0)
                 ELSE [Abort(t, WriteAbortCode(outcome)) EXCEPT !.raised = outcome])

\* CloseFile: the request arrives.
CloseFile(t, name) ==
    /\ svc \in {"json", "file"}
    /\ CanStart(t)
    /\ name \in ClientNames
    /\ UNCHANGED <<svc, serial, sessions, file_handle, register_data, lock, nextId, keyOf, acked>>
    /\ Step(t, Request(t, "Close", "none", "none", name, "none", "none", 0,
                       "close_lookup"))

\* CloseFile: "with self.lock: file_path = self._get_file_path_by_session_name(...)"
CloseLookup(t) ==
    /\ th[t].pc = "close_lookup"
    /\ LockFree
    /\ UNCHANGED lock
    /\ UNCHANGED <<svc, serial, sessions, file_handle, register_data, nextId, keyOf, acked>>
    /\ Step(t, IF GetKeyByName(th[t].name) = "none"
               THEN Abort(t, "NOT_FOUND")
               ELSE [th[t] EXCEPT !.path = GetKeyByName(th[t].name),
                                  !.pc = "close_pop"])

\* The status of an exception raised in CloseFile after the lookup:
\* JsonFileLoggerServicer catches it ("except Exception": INTERNAL),
\* FileLoggerServicer has no try there.
CloseFileErrorCode(raised) ==
    IF svc = "json" THEN "INTERNAL" ELSE raised

\* A pop that empties the registry.
CloseFilePopAll(t) ==
    /\ th[t].pc = "close_pop"
    /\ LockFree
    /\ svc \in {"json", "file"}
    /\ UNCHANGED lock
    /\ UNCHANGED <<svc, serial, file_handle, register_data, nextId, keyOf, acked>>
    /\ IF sessions[th[t].path] = None
       THEN /\ UNCHANGED sessions
            /\ Step(t, Abort(t, CloseFileErrorCode("UNKNOWN")))
       ELSE /\ sessions' = [k \in Keys |-> None]
            /\ Step(t, [th[t] EXCEPT !.session = sessions[th[t].path],
                                     !.pc = "close_handle"])

\* CloseFile: "with self.lock: session = self.sessions.pop(file_path)"
CloseFilePop(t) ==
    /\ th[t].pc = "close_pop"
    /\ LockFree
    /\ svc \in {"json", "file"}
    /\ UNCHANGED lock
    /\ UNCHANGED <<svc, serial, file_handle, register_data, nextId, keyOf, acked>>
    /\ IF sessions[th[t].path] = None
       THEN /\ UNCHANGED sessions
            /\ Step(t, Abort(t, CloseFileErrorCode("UNKNOWN")))
       ELSE /\ sessions' = [sessions EXCEPT ![th[t].path] = None]
            /\ Step(t, [th[t] EXCEPT !.session = sessions[th[t].path],
                                     !.pc = "close_handle"])

\* CloseFile: "if session.file_handle.closed: abort(NOT_FOUND)", else close it.
CloseHandle(t) ==
    /\ th[t].pc = "close_handle"
    /\ UNCHANGED <<svc, serial, sessions, register_data, lock, nextId, keyOf>>
    /\ IF file_handle[th[t].session] = "closed"
       THEN /\ UNCHANGED <<file_handle, acked>>
            /\ Step(t, Abort(t, CloseFileErrorCode("NOT_FOUND")))
       ELSE /\ file_handle' = [file_handle EXCEPT ![th[t].session] = "closed"]
            /\ acked' = acked \cup {th[t].name}
            /\ Step(t, Return(t, None, FALSE, 0))

\* clean_up is called.
CleanUpCall(t) ==
    /\ CanStart(t)
    /\ \A u \in Threads : th[u].op = "clean_up" => th[u].pc = "idle"
    /\ UNCHANGED <<svc, serial, sessions, file_handle, register_data, lock, nextId, keyOf, acked>>
    /\ LET req == Request(t, "clean_up", "none", "none", None, "none", "none", 0, "cleanup_loop")
       IN  Step(t, IF svc \in LockedServices
                   THEN [req EXCEPT !.pc = "cleanup_lock"]
                   ELSE [req EXCEPT !.left = SessionsKeys])

\* clean_up is called on the servicer, at any time.
CleanUp(t) == CleanUpCall(t) /\ UNCHANGED server

\* start_server: the operator pressed Enter, "servicer.clean_up()" (the
\* server has not been stopped yet: RPCs are still accepted and served).
ShutdownCleanUp(t) ==
    /\ server = "serving"
    /\ CleanUpCall(t)
    /\ server' = "clean_up"

\* start_server: "discovery_client.unregister_service(registration_id)"
\* (nothing of the servicer changes), then "server.stop(grace=5)": no new
\* RPC is accepted, the RPCs in flight go on.
ServerStop ==
    /\ server = "cleaned"
    /\ server' = "stopping"
    /\ UNCHANGED <<svc, serial, sessions, file_handle, register_data, lock, th, nextId,
                   keyOf, acked, pre, scope, scopes, cleaned, last_write, adapter>>

\* start_server: "server.wait_for_termination()" returns once no RPC is in
\* flight.
WaitForTermination ==
    /\ server = "stopping"
    /\ \A t \in Threads : ~InFlight(t)
    /\ server' = "stopped"
    /\ UNCHANGED <<svc, serial, sessions, file_handle, register_data, lock, th, nextId,
                   keyOf, acked, pre, scope, scopes, cleaned, last_write, adapter>>

\* clean_up: one iteration of "for session in self.sessions.values()", which
\* closes the handle / empties the register_data of a session that is open.
CleanUpLoop(t) ==
    /\ th[t].pc = "cleanup_loop"
    /\ UNCHANGED <<svc, serial, sessions, lock, nextId, keyOf, acked>>
    /\ \E k \in th[t].left :
         /\ IF ~SessionOpen(sessions[k])
            THEN UNCHANGED <<file_handle, register_data>>
            ELSE IF svc = "device"
            THEN /\ register_data' = [register_data EXCEPT ![sessions[k]] = EmptyDict]
                 /\ UNCHANGED file_handle
            ELSE /\ file_handle' = [file_handle EXCEPT ![sessions[k]] = "closed"]
                 /\ UNCHANGED register_data
         /\ Step(t, [th[t] EXCEPT !.left = @ \ {k}])

\* A clean_up that returned without leaving its "with self.lock:" block.
CleanUpClearKeepingLock(t) ==
    /\ th[t].pc = "cleanup_loop"
    /\ th[t].left = {}
    /\ sessions' = [k \in Keys |-> None]
    /\ UNCHANGED <<svc, serial, file_handle, register_data, lock, nextId, keyOf, acked>>
    /\ Step(t, Return(t, None, FALSE, 0))

\* clean_up: "self.sessions.clear()", and the lock is released.
CleanUpClear(t) ==
    /\ th[t].pc = "cleanup_loop"
    /\ th[t].left = {}
    /\ sessions' = [k \in Keys |-> None]
    /\ lock' = None
    /\ UNCHANGED <<svc, serial, file_handle, register_data, nextId, keyOf, acked>>
    /\ Step(t, Return(t, None, FALSE, 0))

(***************************************************************************)
(* DeviceCommServicer                                                      *)
(***************************************************************************)
\* Initialize's validation of register_map_path: "none" when it passes.
\* "text.csv" holds a Default Data that is no integer (ValueError).
RegisterMapError(map) ==
    CASE map = "map.txt" -> "INVALID_ARGUMENT"
      [] map = "missing.csv" -> "NOT_FOUND"
      [] map = "text.csv" -> "INTERNAL"
      [] OTHER -> "none"

\* Initialize: validate the register map, pick the handler.
Initialize(t, resource, beh, map) ==
    /\ svc = "device"
    /\ CanStart(t)
    /\ beh \in {UNSPECIFIED, INITIALIZE_NEW} => NameLeft
    /\ UNCHANGED <<svc, serial, sessions, file_handle, register_data, lock, nextId, keyOf, acked>>
    /\ LET req == Request(t, "Initialize", resource, beh, None, map, "none", 0, Handler(beh))
       IN  Step(t, IF RegisterMapError(map) # "none"
                   THEN [req EXCEPT !.pc = "idle", !.map = "none", !.valid = FALSE,
                                    !.code = RegisterMapError(map)]
                   ELSE IF Handler(beh) = "none"
                   THEN [req EXCEPT !.pc = "idle", !.map = "none",
                                    !.code = "INVALID_ARGUMENT"]
                   ELSE req)

\* _create_new_session: session_name = str(uuid.uuid4())
CreateUuid(t) ==
    /\ th[t].pc = "create_uuid"
    /\ nextId' = nextId + 1
    /\ UNCHANGED <<svc, serial, sessions, file_handle, register_data, lock, keyOf, acked>>
    /\ Step(t, [th[t] EXCEPT !.session = nextId, !.pc = "create_insert"])

\* The GPIO operations of DeviceCommServicer.
GpioOps == {"ReadGpioChannel", "WriteGpioChannel", "ReadGpioPort", "WriteGpioPort"}

\* The arguments of a GPIO request: "ok" when each is in its range, else the
\* first one the handler finds invalid (a channel that is no GPIOChannel, a
\* port that is no GPIOPort, a mask or a state outside 0..255 or its enum).
GpioArgs(op) ==
    CASE op = "ReadGpioChannel" -> {"ok", "channel"}
      [] op = "WriteGpioChannel" -> {"ok", "channel", "state"}
      [] op = "ReadGpioPort" -> {"ok", "port", "mask"}
      [] op = "WriteGpioPort" -> {"ok", "port", "mask", "state"}

\* The handlers behind @validate_session, as the position the decorator
\* passes on to.
Body(op) ==
    CASE op = "ReadRegister" -> "read_check"
      [] op = "WriteRegister" -> "write_body"
      [] op = "Close" -> "dclose_pop"
      [] op \in GpioOps -> "gpio_check"

\* A ReadRegister, WriteRegister or Close request arrives.
DeviceCall(t, op, name, reg, val) ==
    /\ svc = "device"
    /\ CanStart(t)
    /\ name \in ClientNames
    /\ UNCHANGED <<svc, serial, sessions, file_handle, register_data, lock, nextId, keyOf, acked>>
    /\ Step(t, Request(t, op, "none", "none", name, "none", reg, val, "vs_get"))

ReadRegister(t, name, reg) == DeviceCall(t, "ReadRegister", name, reg, 0)

WriteRegister(t, name, reg, val) == DeviceCall(t, "WriteRegister", name, reg, val)

Close(t, name) == DeviceCall(t, "Close", name, "none", 0)

\* A GPIO request arrives.
GpioCall(t, op, name, args) ==
    /\ svc = "device"
    /\ CanStart(t)
    /\ name \in ClientNames
    /\ UNCHANGED <<svc, serial, sessions, file_handle, register_data, lock, nextId, keyOf, acked>>
    /\ Step(t, [Request(t, op, "none", "none", name, "none", "none", 0, "vs_get")
                  EXCEPT !.args = args])

\* ReadGpioChannel, WriteGpioChannel, ReadGpioPort, WriteGpioPort: the
\* argument checks call context.abort(INVALID_ARGUMENT) inside the try, and
\* "except Exception" turns that into INTERNAL; else the simulated result
\* (random.choice for the reads).
GpioCheck(t) ==
    /\ th[t].pc = "gpio_check"
    /\ UNCHANGED <<svc, serial, sessions, file_handle, register_data, lock, nextId, keyOf, acked>>
    /\ IF th[t].args # "ok"
       THEN Step(t, Abort(t, "INTERNAL"))
       ELSE \E state \in (IF th[t].op \in {"ReadGpioChannel", "ReadGpioPort"}
                           THEN {0, 1} ELSE {0}) :
              Step(t, Return(t, None, FALSE, state))

\* validate_session: "with self.lock: session = self._get_session_by_name(...)",
\* NOT_FOUND when there is none.
ValidateSession(t) ==
    /\ th[t].pc = "vs_get"
    /\ LockFree
    /\ UNCHANGED lock
    /\ UNCHANGED <<svc, serial, sessions, file_handle, register_data, nextId, keyOf, acked>>
    /\ Step(t, IF GetSessionByName(th[t].name) = None
               THEN Abort(t, "NOT_FOUND")
               ELSE [th[t] EXCEPT !.session = GetSessionByName(th[t].name),
                                  !.pc = Body(th[t].op)])

\* ReadRegister: "if register_name not in session.register_data: abort(NOT_FOUND)"
\* sits inside the try: "except Exception" turns it into INTERNAL.
ReadRegisterCheck(t) ==
    /\ th[t].pc = "read_check"
    /\ UNCHANGED <<svc, serial, sessions, file_handle, register_data, lock, nextId, keyOf, acked>>
    /\ Step(t, IF th[t].reg \notin DOMAIN register_data[th[t].session]
               THEN Abort(t, "INTERNAL")
               ELSE [th[t] EXCEPT !.pc = "read_value"])

\* ReadRegister: "value = session.register_data[register_name]"; KeyError
\* (the data was emptied meanwhile) is NOT_FOUND.
ReadRegisterValue(t) ==
    /\ th[t].pc = "read_value"
    /\ UNCHANGED <<svc, serial, sessions, file_handle, register_data, lock, nextId, keyOf, acked>>
    /\ Step(t, IF th[t].reg \notin DOMAIN register_data[th[t].session]
               THEN Abort(t, "NOT_FOUND")
               ELSE Return(t, None, FALSE, register_data[th[t].session][th[t].reg]))

\* A write that loses the value.
DictSetLost(d, k, v) == d

\* d[k] = v on a dict.
DictSet(d, k, v) ==
    [r \in DOMAIN d \cup {k} |-> IF r = k THEN v ELSE d[r]]

\* WriteRegister: "session.register_data[register_name] = value"
WriteRegisterBody(t) ==
    /\ th[t].pc = "write_body"
    /\ register_data' = [register_data EXCEPT ![th[t].session] =
                            DictSet(@, th[t].reg, th[t].val)]
    /\ UNCHANGED <<svc, serial, sessions, file_handle, lock, nextId, keyOf, acked>>
    /\ Step(t, Return(t, None, FALSE, 0))

\* Close: "with self.lock: resource_name = ...; session = self.sessions.pop(resource_name)";
\* pop(None) raises KeyError ("except Exception": INTERNAL).
ClosePop(t) ==
    /\ th[t].pc = "dclose_pop"
    /\ LockFree
    /\ UNCHANGED lock
    /\ UNCHANGED <<svc, serial, file_handle, register_data, nextId, keyOf, acked>>
    /\ IF GetKeyByName(th[t].name) = "none"
       THEN /\ UNCHANGED sessions
            /\ Step(t, Abort(t, "INTERNAL"))
       ELSE /\ sessions' = [sessions EXCEPT ![GetKeyByName(th[t].name)] = None]
            /\ Step(t, [th[t] EXCEPT !.session = sessions[GetKeyByName(th[t].name)],
                                     !.pc = "close_data"])

\* Close: "if not session.register_data: abort(NOT_FOUND)" inside the try
\* (INTERNAL), else "session.register_data = {}" and Ack.
CloseData(t) ==
    /\ th[t].pc = "close_data"
    /\ UNCHANGED <<svc, serial, sessions, file_handle, lock, nextId, keyOf>>
    /\ IF DOMAIN register_data[th[t].session] = {}
       THEN /\ UNCHANGED <<register_data, acked>>
            /\ Step(t, Abort(t, "INTERNAL"))
       ELSE /\ register_data' = [register_data EXCEPT ![th[t].session] = EmptyDict]
            /\ acked' = acked \cup {th[t].name}
            /\ Step(t, Return(t, None, FALSE, 0))

(***************************************************************************)
(* Client adapters                                                         *)
(***************************************************************************)
\* SessionInitializationBehavior of ni_measurement_plugin_sdk_service.
AUTO == "AUTO"
INITIALIZE_SERVER_SESSION == "INITIALIZE_SERVER_SESSION"
ATTACH_TO_SERVER_SESSION == "ATTACH_TO_SERVER_SESSION"
INITIALIZE_SESSION_THEN_DETACH == "INITIALIZE_SESSION_THEN_DETACH"
ATTACH_TO_SESSION_THEN_CLOSE == "ATTACH_TO_SESSION_THEN_CLOSE"
SessionInitializationBehavior ==
    {AUTO, INITIALIZE_SERVER_SESSION, ATTACH_TO_SERVER_SESSION,
     INITIALIZE_SESSION_THEN_DETACH, ATTACH_TO_SESSION_THEN_CLOSE}

Clients == {"JsonLoggerClient", "FileLoggerServiceClient", "DeviceCommunicationClient"}

\* The DeviceCommunicationClient of custom_instr_session_sharing/client/client_session
\* and the FileLoggerServiceClient of example_measurement.
ExampleClients == {"client_session.DeviceCommunicationClient",
                   "example_measurement.FileLoggerServiceClient"}

AllClients == Clients \cup ExampleClients

\* _SERVER_INITIALIZATION_BEHAVIOR_MAP of client_session/session.py
JsonLoggerBehaviorMap(behavior) ==
    CASE behavior = AUTO -> UNSPECIFIED
      [] behavior = INITIALIZE_SERVER_SESSION -> INITIALIZE_NEW
      [] behavior = ATTACH_TO_SERVER_SESSION -> ATTACH_TO_EXISTING
      [] behavior = INITIALIZE_SESSION_THEN_DETACH -> INITIALIZE_NEW
      [] behavior = ATTACH_TO_SESSION_THEN_CLOSE -> ATTACH_TO_EXISTING

\* _SERVER_INITIALIZATION_BEHAVIOR_MAP of nidcpower_measurement_with_logger/session.py
FileLoggerBehaviorMap(behavior) ==
    CASE behavior = AUTO -> UNSPECIFIED
      [] behavior = INITIALIZE_SERVER_SESSION -> INITIALIZE_NEW
      [] behavior = ATTACH_TO_SERVER_SESSION -> ATTACH_TO_EXISTING
      [] behavior = INITIALIZE_SESSION_THEN_DETACH -> INITIALIZE_NEW
      [] behavior = ATTACH_TO_SESSION_THEN_CLOSE -> ATTACH_TO_EXISTING

\* _SERVER_INITIALIZATION_BEHAVIOR_MAP of device_communication_client/session.py
DeviceCommunicationBehaviorMap(behavior) ==
    CASE behavior = AUTO -> UNSPECIFIED
      [] behavior = INITIALIZE_SERVER_SESSION -> INITIALIZE_NEW
      [] behavior = ATTACH_TO_SERVER_SESSION -> ATTACH_TO_EXISTING
      [] behavior = INITIALIZE_SESSION_THEN_DETACH -> INITIALIZE_NEW
      [] behavior = ATTACH_TO_SESSION_THEN_CLOSE -> ATTACH_TO_EXISTING

\* _SERVER_INITIALIZATION_BEHAVIOR_MAP of custom_instr_session_sharing/client/client_session/session.py
ClientSessionBehaviorMap(behavior) ==
    CASE behavior = AUTO -> UNSPECIFIED
      [] behavior = INITIALIZE_SERVER_SESSION -> INITIALIZE_NEW
      [] behavior = ATTACH_TO_SERVER_SESSION -> ATTACH_TO_EXISTING
      [] behavior = INITIALIZE_SESSION_THEN_DETACH -> INITIALIZE_NEW
      [] behavior = ATTACH_TO_SESSION_THEN_CLOSE -> ATTACH_TO_EXISTING

\* _INITIALIZATION_BEHAVIOR of example_measurement/session.py.  Its enum
\* InitializationBehavior has the five behaviours under the names AUTO,
\* INITIALIZE_NEW, ATTACH_TO_EXISTING, INITIALIZE_THEN_DETACH and
\* ATTACH_TO_EXISTING_THEN_CLOSE; logger_pb2.AUTO is the server's UNSPECIFIED.
ExampleMeasurementBehaviorMap(behavior) ==
    CASE behavior = AUTO -> UNSPECIFIED
      [] behavior = INITIALIZE_SERVER_SESSION -> INITIALIZE_NEW
      [] behavior = ATTACH_TO_SERVER_SESSION -> ATTACH_TO_EXISTING
      [] behavior = INITIALIZE_SESSION_THEN_DETACH -> INITIALIZE_NEW
      [] behavior = ATTACH_TO_SESSION_THEN_CLOSE -> ATTACH_TO_EXISTING

\* initialize_file / initialize: the initialization_behavior put in the request.
RequestBehavior(client, behavior) ==
    CASE client = "JsonLoggerClient" -> JsonLoggerBehaviorMap(behavior)
      [] client = "FileLoggerServiceClient" -> FileLoggerBehaviorMap(behavior)
      [] client = "DeviceCommunicationClient" -> DeviceCommunicationBehaviorMap(behavior)
      [] client = "client_session.DeviceCommunicationClient" ->
           ClientSessionBehaviorMap(behavior)
      [] client = "example_measurement.FileLoggerServiceClient" ->
           ExampleMeasurementBehaviorMap(behavior)

\* An exit policy that closes exactly the sessions the scope created: what
\* the close-on-exit table rules out.
ExitClosesOwnSession(behavior, new_session) == new_session

\* An exit policy that always closes.
ExitAlwaysCloses(behavior, new_session) == TRUE

\* An exit policy that never closes.
ExitNeverCloses(behavior, new_session) == FALSE

\* JsonLoggerClient.__exit__: whether it calls close_file().
JsonLoggerExitCloses(behavior, new_session) ==
    \/ behavior \in {INITIALIZE_SERVER_SESSION, ATTACH_TO_SESSION_THEN_CLOSE}
    \/ (behavior = AUTO /\ new_session)

\* FileLoggerServiceClient.__exit__ (nidcpower example): whether it calls close_file().
FileLoggerExitCloses(behavior, new_session) ==
    \/ behavior \in {INITIALIZE_SERVER_SESSION, ATTACH_TO_SESSION_THEN_CLOSE}
    \/ (behavior = AUTO /\ new_session)

\* DeviceCommunicationClient.__exit__: whether it calls close(); only with a
\* session name that is set and not empty.
DeviceCommunicationExitCloses(behavior, new_session, session_name) ==
    /\ session_name # None
    /\ \/ behavior \in {INITIALIZE_SERVER_SESSION, ATTACH_TO_SESSION_THEN_CLOSE}
       \/ (behavior = AUTO /\ new_session)

\* "self._initialization_behavior == SessionInitializationBehavior.X" with a
\* value of the server's enum on the left: protobuf enum values are ints and
\* SessionInitializationBehavior is an IntEnum, whose first three members
\* have the numbers of the server's three.
SameNumber(server_behavior, behavior) ==
    \/ server_behavior = UNSPECIFIED /\ behavior = AUTO
    \/ server_behavior = INITIALIZE_NEW /\ behavior = INITIALIZE_SERVER_SESSION
    \/ server_behavior = ATTACH_TO_EXISTING /\ behavior = ATTACH_TO_SERVER_SESSION

\* DeviceCommunicationClient.__exit__ of client_session: __init__ has kept
\* _SERVER_INITIALIZATION_BEHAVIOR_MAP[initialization_behavior], and that is
\* what __exit__ compares with the members of SessionInitializationBehavior.
ClientSessionExitCloses(behavior, new_session, session_name) ==
    LET kept == ClientSessionBehaviorMap(behavior)
    IN  /\ session_name # None
        /\ \/ \E b \in {INITIALIZE_SERVER_SESSION, ATTACH_TO_SESSION_THEN_CLOSE} :
                SameNumber(kept, b)
           \/ (SameNumber(kept, AUTO) /\ new_session)

\* A policy that looks at new_session alone in its first branch.
ExampleMeasurementExitClosesNew(behavior, new_session) ==
    \/ new_session
    \/ (~new_session /\ behavior = ATTACH_TO_SESSION_THEN_CLOSE)

\* FileLoggerServiceClient.__exit__ of example_measurement: whether it calls
\* close_file().
ExampleMeasurementExitCloses(behavior, new_session) ==
    \/ (new_session /\ (behavior = AUTO \/ behavior = INITIALIZE_SERVER_SESSION))
    \/ (~new_session /\ behavior = ATTACH_TO_SESSION_THEN_CLOSE)

ExitCloses(client, behavior, new_session, session_name) ==
    CASE client = "JsonLoggerClient" -> JsonLoggerExitCloses(behavior, new_session)
      [] client = "FileLoggerServiceClient" -> FileLoggerExitCloses(behavior, new_session)
      [] client = "DeviceCommunicationClient" ->
           DeviceCommunicationExitCloses(behavior, new_session, session_name)
      [] client = "client_session.DeviceCommunicationClient" ->
           ClientSessionExitCloses(behavior, new_session, session_name)
      [] client = "example_measurement.FileLoggerServiceClient" ->
           ExampleMeasurementExitCloses(behavior, new_session)

\* No adapter constructed yet.  phase: "none", "open" (inside the with block),
\* "exited", "init_failed" (__init__ raised), "exit_failed" (__exit__ raised).
\* sent is the behaviour of the Initialize request, closeCalls the Close RPCs
\* that __exit__ issued and closeName the session name they carried.
NoScope ==
    [client |-> "none", phase |-> "none", behavior |-> "none", sent |-> "none",
     session_name |-> None, new_session |-> FALSE, closeCalls |-> 0,
     closeName |-> None]

\* The stub's answer to a call: a response, or grpc.RpcError.
StubOutcomes == {"response", "RpcError"}

\* __init__: send Initialize with the mapped behaviour; keep session_name and
\* new_session of the response, or re-raise the RpcError.  The response is any
\* a broker can give: a session name and either value of new_session.
ClientInit(client, behavior) ==
    /\ scope.phase # "open"
    /\ UNCHANGED <<svc, serial, sessions, file_handle, register_data, lock, th, nextId,
                   keyOf, acked, pre, scopes, cleaned, last_write, server, adapter>>
    /\ \E outcome \in StubOutcomes, name \in Names, new \in BOOLEAN :
         scope' = IF outcome = "RpcError"
                  THEN [NoScope EXCEPT !.client = client, !.phase = "init_failed",
                                       !.behavior = behavior,
                                       !.sent = RequestBehavior(client, behavior)]
                  ELSE [NoScope EXCEPT !.client = client, !.phase = "open",
                                       !.behavior = behavior,
                                       !.sent = RequestBehavior(client, behavior),
                                       !.session_name = name, !.new_session = new]

\* __exit__: call Close when the behaviour asks for it; an RpcError of that
\* call is logged and re-raised.
ClientExit ==
    /\ scope.phase = "open"
    /\ UNCHANGED <<svc, serial, sessions, file_handle, register_data, lock, th, nextId,
                   keyOf, acked, pre, scopes, cleaned, last_write, server, adapter>>
    /\ IF ExitCloses(scope.client, scope.behavior, scope.new_session, scope.session_name)
       THEN \E outcome \in StubOutcomes :
              scope' = [scope EXCEPT !.closeCalls = @ + 1,
                                     !.closeName = scope.session_name,
                                     !.phase = IF outcome = "RpcError"
                                               THEN "exit_failed" ELSE "exited"]
       ELSE scope' = [scope EXCEPT !.phase = "exited"]

\* No adapter instance is shared in this run.
NoAdapter ==
    [client |-> "none", stub |-> None, lock |-> None, resolved |-> 0,
     calls |-> 0, caller |-> [t \in Threads |-> [pc |-> "idle", got |-> None]]]

(***************************************************************************)
(* The servers                                                             *)
(***************************************************************************)
\* The clients of the run call the stubs directly, with no adapter.
NoScopes == [i \in {} |-> UnusedScope]

\* __init__: an empty sessions dict, a free lock, no call in flight.
InitServicer ==
    /\ sessions = [k \in Keys |-> None]
    /\ file_handle = [n \in Names |-> "none"]
    /\ register_data = [n \in Names |-> EmptyDict]
    /\ lock = None
    /\ th = [t \in Threads |-> IdleThread]
    /\ nextId = 1
    /\ keyOf = [n \in Names |-> "none"]
    /\ acked = {}
    /\ pre = [sessions |-> sessions, file_handle |-> file_handle,
              register_data |-> register_data]
    /\ scope = NoScope
    /\ cleaned = {}
    /\ last_write = [n \in Names |-> EmptyDict]
    /\ server = "serving"

\* ... and no adapter instance shared between callers.
InitCommon ==
    /\ InitServicer
    /\ adapter = NoAdapter

\* Each server under the calls of its clients: concurrent calls for the
\* servers that have a lock; FileLoggerServicer, which has none, is driven by
\* one client that issues its calls one at a time.
Init ==
    /\ svc \in Services
    /\ serial = (svc \notin LockedServices)
    /\ InitCommon
    /\ scopes = NoScopes

\* Each server under calls issued one after another.
InitSeq ==
    /\ svc \in Services
    /\ serial = TRUE
    /\ InitCommon
    /\ scopes = NoScopes

\* The resources and registers the clients of a run use: concurrent clients
\* contend for one device and one register and write one value (not the
\* default), serial clients use them all.
Resources == IF serial THEN ResourceNames ELSE {"dev1"}

Registers == IF serial THEN RegisterNames ELSE {"r1"}

Values == IF serial THEN RegisterValues ELSE {1}

Next ==
    \E t \in Threads :
        \/ Acquire(t)
        \/ \E path \in FilePaths, beh \in Behaviors : InitializeFile(t, path, beh)
        \/ AutoGet(t)
        \/ AutoCheck(t)
        \/ CreateCheck(t)
        \/ CreateCheck2(t)
        \/ CreateOpen(t)
        \/ CreateInsert(t)
        \/ AttachGet(t)
        \/ AttachCheck(t)
        \/ \E name \in Names \cup {BogusName} : LogMeasurementData(t, name)
        \/ LogGet(t)
        \/ LogWrite(t)
        \/ \E name \in Names \cup {BogusName} : CloseFile(t, name)
        \/ CloseLookup(t)
        \/ CloseFilePop(t)
        \/ CloseHandle(t)
        \/ CleanUp(t)
        \/ CleanUpLoop(t)
        \/ CleanUpClear(t)
        \/ \E resource \in Resources, beh \in Behaviors, map \in RegisterMapPaths :
             Initialize(t, resource, beh, map)
        \/ CreateUuid(t)
        \/ \E name \in Names \cup {BogusName}, reg \in Registers :
             ReadRegister(t, name, reg)
        \/ \E name \in Names \cup {BogusName}, reg \in Registers, val \in Values :
             WriteRegister(t, name, reg, val)
        \/ \E name \in Names \cup {BogusName} : Close(t, name)
        \/ ValidateSession(t)
        \/ ReadRegisterCheck(t)
        \/ ReadRegisterValue(t)
        \/ WriteRegisterBody(t)
        \/ ClosePop(t)
        \/ CloseData(t)

Spec == Init /\ [][Next]_vars

SpecSeq == InitSeq /\ [][Next]_vars

\* DeviceCommServicer under the operations on a session, the GPIO operations
\* (which touch no state of the servicer) among them, issued one after
\* another on sessions of one device.
InitGpio ==
    /\ svc = "device"
    /\ serial = TRUE
    /\ InitCommon
    /\ scopes = NoScopes

NextGpio ==
    \E t \in Threads :
        \/ \E map \in {"map.csv", "empty.csv"} : Initialize(t, "dev1", INITIALIZE_NEW, map)
        \/ CreateCheck(t)
        \/ CreateUuid(t)
        \/ CreateInsert(t)
        \/ \E name \in Names \cup {BogusName}, reg \in RegisterNames :
             ReadRegister(t, name, reg)
        \/ \E op \in GpioOps, name \in Names \cup {BogusName} :
             \E args \in GpioArgs(op) : GpioCall(t, op, name, args)
        \/ \E name \in Names \cup {BogusName} : Close(t, name)
        \/ ValidateSession(t)
        \/ ReadRegisterCheck(t)
        \/ ReadRegisterValue(t)
        \/ GpioCheck(t)
        \/ ClosePop(t)
        \/ CloseData(t)

SpecGpio == InitGpio /\ [][NextGpio]_vars

(***************************************************************************)
(* LoggerServiceServicer (file_logger_service and file_logger)             *)
(***************************************************************************)
\* The two LoggerServiceServicer variants.  self.sessions maps a file name to
\* its file handle: sessions[file_name] is the handle (numbered in the order
\* the handles were opened), file_handle[h] its state, keyOf[h] the file name
\* it was opened for.  Neither variant has a lock; the client issues its calls
\* one at a time, so a handler runs from request to response in one step.
LoggerServices == {"file_logger_service", "file_logger"}

\* request.initialization_behavior: the enum of logger_service_pb2 and an
\* unknown value.
LoggerBehaviors == {AUTO, INITIALIZE_NEW, ATTACH_TO_EXISTING, "UNKNOWN_ENUM"}

\* What open(file_name, "a+") and file_handle.write can do; no handler
\* catches the exception, so the call ends with status UNKNOWN.
LoggerIoOutcomes == {"ok", "OSError"}

\* A file object that lost its last reference: closed when it is finalized,
\* open until then.
DroppedHandleStates == {"open", "closed"}

\* The response of the call req, with status code and new_session new.
LoggerReply(req, code, new) ==
    [req EXCEPT !.pc = "idle", !.code = code, !.rnew = new]

\* "file_name in self.sessions and not self.sessions[file_name].closed"
LoggerSessionOpen(file_name) ==
    /\ sessions[file_name] # None
    /\ file_handle[sessions[file_name]] # "closed"

\* _create_new_session: file_logger aborts when file_name is a key of
\* self.sessions; file_logger_service has no such check.
LoggerAlreadyExists(file_name) ==
    svc = "file_logger" /\ sessions[file_name] # None

\* _create_new_session: open the file and store the handle under file_name;
\* a handle already stored there is dropped.
LoggerCreateNewSession(t, req, file_name) ==
    IF LoggerAlreadyExists(file_name)
    THEN /\ UNCHANGED <<sessions, file_handle, nextId, keyOf>>
         /\ Step(t, LoggerReply(req, "ALREADY_EXISTS", FALSE))
    ELSE \E outcome \in LoggerIoOutcomes :
           IF outcome = "ok"
           THEN /\ nextId <= MaxSessions
                /\ \E dropped \in DroppedHandleStates :
                     file_handle' =
                       [h \in Names |->
                          IF h = nextId THEN "open"
                          ELSE IF h = sessions[file_name] THEN dropped
                          ELSE file_handle[h]]
                /\ sessions' = [sessions EXCEPT ![file_name] = nextId]
                /\ keyOf' = [keyOf EXCEPT ![nextId] = file_name]
                /\ nextId' = nextId + 1
                /\ Step(t, LoggerReply(req, "OK", TRUE))
           ELSE /\ UNCHANGED <<sessions, file_handle, nextId, keyOf>>
                /\ Step(t, LoggerReply(req, "UNKNOWN", FALSE))

\* _attach_existing_session
LoggerAttachExistingSession(t, req, file_name) ==
    /\ UNCHANGED <<sessions, file_handle, nextId, keyOf>>
    /\ Step(t, LoggerReply(req, IF LoggerSessionOpen(file_name)
                                THEN "OK" ELSE "NOT_FOUND", FALSE))

\* _auto_initialize_session
LoggerAutoInitializeSession(t, req, file_name) ==
    IF LoggerSessionOpen(file_name)
    THEN /\ UNCHANGED <<sessions, file_handle, nextId, keyOf>>
         /\ Step(t, LoggerReply(req, "OK", FALSE))
    ELSE LoggerCreateNewSession(t, req, file_name)

\* InitializeFile.  On a value that is none of the three, file_logger aborts
\* with INVALID_ARGUMENT; file_logger_service returns None, which cannot be
\* serialized as a response (INTERNAL).
LoggerInitializeFile(t, file_name, beh) ==
    /\ svc \in LoggerServices
    /\ CanStart(t)
    /\ UNCHANGED <<svc, serial, register_data, lock, acked>>
    /\ LET req == Request(t, "Initialize", file_name, beh, None,
                          "none", "none", 0, "idle")
       IN  CASE beh = INITIALIZE_NEW -> LoggerCreateNewSession(t, req, file_name)
             [] beh = ATTACH_TO_EXISTING -> LoggerAttachExistingSession(t, req, file_name)
             [] beh = AUTO -> LoggerAutoInitializeSession(t, req, file_name)
             [] OTHER ->
                  /\ UNCHANGED <<sessions, file_handle, nextId, keyOf>>
                  /\ Step(t, LoggerReply(req, IF svc = "file_logger"
                                              THEN "INVALID_ARGUMENT"
                                              ELSE "INTERNAL", FALSE))

\* LogData: write to the handle stored under file_name.
LoggerLogData(t, file_name) ==
    /\ svc \in LoggerServices
    /\ CanStart(t)
    /\ UNCHANGED <<svc, serial, sessions, file_handle, register_data, lock,
                   nextId, keyOf, acked>>
    /\ LET req == Request(t, "Operate", file_name, "none", None,
                          "none", "none", 0, "idle")
       IN  IF ~LoggerSessionOpen(file_name)
           THEN Step(t, LoggerReply(req, "NOT_FOUND", FALSE))
           ELSE \E outcome \in LoggerIoOutcomes :
                  Step(t, LoggerReply(req, IF outcome = "ok" THEN "OK"
                                           ELSE "UNKNOWN", FALSE))

\* CloseFile: pop the handle stored under file_name, then close it.
LoggerCloseFile(t, file_name) ==
    /\ svc \in LoggerServices
    /\ CanStart(t)
    /\ UNCHANGED <<svc, serial, register_data, lock, nextId, keyOf, acked>>
    /\ LET req == Request(t, "Close", file_name, "none", None,
                          "none", "none", 0, "idle")
           handle == sessions[file_name]
       IN  /\ sessions' = [sessions EXCEPT ![file_name] = None]
           /\ IF handle = None \/ file_handle[handle] = "closed"
              THEN /\ UNCHANGED file_handle
                   /\ Step(t, LoggerReply(req, "NOT_FOUND", FALSE))
              ELSE /\ file_handle' = [file_handle EXCEPT ![handle] = "closed"]
                   /\ Step(t, LoggerReply(req, "OK", FALSE))

\* A LoggerServiceServicer under the calls of one client, issued one after
\* another.
InitLogger ==
    /\ svc \in LoggerServices
    /\ serial = TRUE
    /\ InitCommon
    /\ scopes = NoScopes

NextLogger ==
    \E t \in Threads, file_name \in FilePaths :
        \/ \E beh \in LoggerBehaviors : LoggerInitializeFile(t, file_name, beh)
        \/ LoggerLogData(t, file_name)
        \/ LoggerCloseFile(t, file_name)

SpecLogger == InitLogger /\ [][NextLogger]_vars

(***************************************************************************)
(* _get_stub                                                               *)
(***************************************************************************)
\* _get_stub tests self._stub, takes self._initialization_lock and tests
\* again: the DeviceCommunicationClient of
\* custom_instr_session_sharing/server/test_client.py.
DoubleCheckedStubClients == {"test_client.DeviceCommunicationClient"}

\* _get_stub has no lock and never assigns self._stub.
UncachedStubClients == {"example_measurement.FileLoggerServiceClient"}

\* The other adapters test self._stub inside "with self._stub_lock:".
StubClients == AllClients \cup DoubleCheckedStubClients

\* Calls made through the adapter instance over a run.
MaxCalls == 3

\* The servicer's state is no part of a step of the adapter.
StubFrame ==
    UNCHANGED <<svc, serial, sessions, file_handle, register_data, lock, th, nextId,
                keyOf, acked, pre, scope, scopes, cleaned, last_write, server>>

\* Caller t moves to pc holding stub got.
StubMove(t, pc, got) ==
    [adapter.caller EXCEPT ![t] = [pc |-> pc, got |-> got]]

\* A method of the adapter (initialize_file, log_data, read_register, ...,
\* close) begins on thread t: it evaluates self._get_stub().
AdapterCall(t) ==
    /\ adapter.caller[t].pc = "idle"
    /\ adapter.calls < MaxCalls
    /\ adapter' = [adapter EXCEPT !.calls = @ + 1,
                                  !.caller = StubMove(t, "get_stub", None)]
    /\ StubFrame

\* test_client._get_stub: the test of self._stub outside the lock.
GetStubCheck(t) ==
    /\ adapter.client \in DoubleCheckedStubClients
    /\ adapter.caller[t].pc = "get_stub"
    /\ adapter' = [adapter EXCEPT !.caller =
                     IF adapter.stub = None
                     THEN StubMove(t, "lock_wait", None)
                     ELSE StubMove(t, "rpc", adapter.stub)]
    /\ StubFrame

\* "with self._stub_lock:" ("with self._initialization_lock:"): blocks while
\* another caller holds the lock.
GetStubLock(t) ==
    /\ \/ /\ adapter.client \notin DoubleCheckedStubClients \cup UncachedStubClients
          /\ adapter.caller[t].pc = "get_stub"
       \/ adapter.caller[t].pc = "lock_wait"
    /\ adapter.lock = None
    /\ adapter' = [adapter EXCEPT !.lock = t, !.caller = StubMove(t, "locked", None)]
    /\ StubFrame

\* _get_stub that stores no stub: every call resolves again.
GetStubBodyUncached(t) ==
    /\ adapter.client \in UncachedStubClients
    /\ adapter.caller[t].pc = "get_stub"
    /\ IF adapter.stub # None
       THEN adapter' = [adapter EXCEPT !.caller = StubMove(t, "rpc", adapter.stub)]
       ELSE \E outcome \in StubOutcomes :
              adapter' = IF outcome = "RpcError"
                         THEN [adapter EXCEPT !.caller = StubMove(t, "idle", None)]
                         ELSE [adapter EXCEPT !.resolved = @ + 1,
                                              !.caller = StubMove(t, "rpc", adapter.resolved + 1)]
    /\ StubFrame

\* The body under the lock: "if self._stub is None:" resolve the service
\* (resolve_service answers with a location or raises grpc.RpcError),
\* open a channel and store the stub (numbered by the resolution that gave
\* it); an RpcError is re-raised.  The lock is released on the way out.
GetStubBody(t) ==
    /\ adapter.caller[t].pc = "locked"
    /\ IF adapter.stub # None
       THEN adapter' = [adapter EXCEPT !.lock = None,
                                       !.caller = StubMove(t, "rpc", adapter.stub)]
       ELSE \E outcome \in StubOutcomes :
              adapter' = IF outcome = "RpcError"
                         THEN [adapter EXCEPT !.lock = None,
                                              !.caller = StubMove(t, "idle", None)]
                         ELSE [adapter EXCEPT !.lock = None,
                                              !.resolved = @ + 1,
                                              !.stub = adapter.resolved + 1,
                                              !.caller = StubMove(t, "rpc", adapter.resolved + 1)]
    /\ StubFrame

\* The RPC on the stub _get_stub returned; the method returns or raises.
StubRpc(t) ==
    /\ adapter.caller[t].pc = "rpc"
    /\ adapter' = [adapter EXCEPT !.caller = StubMove(t, "idle", adapter.caller[t].got)]
    /\ StubFrame

\* One instance of each client adapter, its methods called from several
\* threads; the servicer behind the stub is not part of the run.
InitStub ==
    /\ svc = "none"
    /\ serial = FALSE
    /\ InitServicer
    /\ scopes = NoScopes
    /\ \E client \in StubClients : adapter = [NoAdapter EXCEPT !.client = client]

NextStub ==
    \E t \in Threads :
        \/ AdapterCall(t)
        \/ GetStubCheck(t)
        \/ GetStubLock(t)
        \/ GetStubBodyUncached(t)
        \/ GetStubBody(t)
        \/ StubRpc(t)

SpecStub == InitStub /\ [][NextStub]_vars

\* The positions at which a handler waits for self.lock.
LockWaits ==
    {"cleanup_lock", "auto_get", "create_insert", "attach_get", "log_get",
     "close_lookup", "close_pop", "vs_get", "dclose_pop"}

\* The next statement of the call in flight on worker t (every action but
\* the arrival of a new call).
Running(t) ==
    \/ Acquire(t)
    \/ AutoGet(t)
    \/ AutoCheck(t)
    \/ CreateCheck(t)
    \/ CreateCheck2(t)
    \/ CreateOpen(t)
    \/ CreateInsert(t)
    \/ AttachGet(t)
    \/ AttachCheck(t)
    \/ LogGet(t)
    \/ LogWrite(t)
    \/ CloseLookup(t)
    \/ CloseFilePop(t)
    \/ CloseHandle(t)
    \/ CleanUpLoop(t)
    \/ CleanUpClear(t)
    \/ CreateUuid(t)
    \/ ValidateSession(t)
    \/ ReadRegisterCheck(t)
    \/ ReadRegisterValue(t)
    \/ WriteRegisterBody(t)
    \/ ClosePop(t)
    \/ CloseData(t)

\* Fair scheduling of the worker threads: a worker whose next statement can
\* run again and again does run it.  The statements outside the lock can always
\* run (Resource Driver calls return); threading.Lock.acquire can run whenever
\* the lock is free, which other calls interrupt, hence strong fairness.
FairScheduling == \A t \in Threads : SF_vars(Running(t))

\* The locked servers under two clients that contend for one file or one
\* device: the calls that begin, and the statements of the calls in flight.
InitLive ==
    /\ svc \in LockedServices
    /\ serial = FALSE
    /\ InitCommon
    /\ scopes = NoScopes

NextLive ==
    \E t \in Threads :
        \/ \E beh \in Behaviors : InitializeFile(t, "a.ndjson", beh)
        \/ \E name \in Names \cup {BogusName} : LogMeasurementData(t, name)
        \/ \E name \in Names \cup {BogusName} : CloseFile(t, name)
        \/ \E beh \in Behaviors, map \in {"map.csv", "missing.csv"} :
             Initialize(t, "dev1", beh, map)
        \/ \E name \in Names \cup {BogusName} : ReadRegister(t, name, "r1")
        \/ \E name \in Names \cup {BogusName} : WriteRegister(t, name, "r1", 1)
        \/ \E name \in Names \cup {BogusName} : Close(t, name)
        \/ CleanUp(t)
        \/ Running(t)

SpecFair == InitLive /\ [][NextLive]_vars /\ FairScheduling

\* The locked servers from start_server's "server.start()" to the end of its
\* shutdown sequence, under two clients that contend for one file or device.
NextStop ==
    \/ \E t \in Threads :
          \/ \E beh \in Behaviors : InitializeFile(t, "a.ndjson", beh)
          \/ \E name \in Names \cup {BogusName} : LogMeasurementData(t, name)
          \/ \E name \in Names \cup {BogusName} : CloseFile(t, name)
          \/ \E beh \in Behaviors, map \in {"map.csv", "missing.csv"} :
               Initialize(t, "dev1", beh, map)
          \/ \E name \in Names \cup {BogusName} : ReadRegister(t, name, "r1")
          \/ \E name \in Names \cup {BogusName} : WriteRegister(t, name, "r1", 1)
          \/ \E name \in Names \cup {BogusName} : Close(t, name)
          \/ ShutdownCleanUp(t)
          \/ Running(t)
    \/ ServerStop
    \/ WaitForTermination

SpecStop == InitLive /\ [][NextStop]_vars

\* The locked servers under two clients that open and close sessions of one
\* file or one device and operate on them: LogMeasurementData, ReadRegister,
\* WriteRegister and the GPIO operations.
NextOperate ==
    \E t \in Threads :
        \/ \E beh \in Behaviors : InitializeFile(t, "a.ndjson", beh)
        \/ \E name \in Names \cup {BogusName} : LogMeasurementData(t, name)
        \/ \E name \in Names \cup {BogusName} : CloseFile(t, name)
        \/ \E beh \in Behaviors : Initialize(t, "dev1", beh, "map.csv")
        \/ \E name \in Names \cup {BogusName} : ReadRegister(t, name, "r1")
        \/ \E name \in Names \cup {BogusName} : WriteRegister(t, name, "r1", 1)
        \/ \E op \in GpioOps, name \in Names :
             \E args \in GpioArgs(op) : GpioCall(t, op, name, args)
        \/ \E name \in Names \cup {BogusName} : Close(t, name)
        \/ AutoGet(t)
        \/ AutoCheck(t)
        \/ CreateCheck(t)
        \/ CreateCheck2(t)
        \/ CreateOpen(t)
        \/ CreateInsert(t)
        \/ AttachGet(t)
        \/ AttachCheck(t)
        \/ LogGet(t)
        \/ LogWrite(t)
        \/ CloseLookup(t)
        \/ CloseFilePop(t)
        \/ CloseHandle(t)
        \/ CreateUuid(t)
        \/ ValidateSession(t)
        \/ ReadRegisterCheck(t)
        \/ ReadRegisterValue(t)
        \/ WriteRegisterBody(t)
        \/ GpioCheck(t)
        \/ ClosePop(t)
        \/ CloseData(t)

SpecOperate == InitLive /\ [][NextOperate]_vars

\* The client adapters against a stub that may answer anything a broker can.
NextAdapter ==
    \/ \E client \in AllClients, behavior \in SessionInitializationBehavior :
         ClientInit(client, behavior)
    \/ ClientExit

SpecAdapter == InitSeq /\ [][NextAdapter]_vars

(***************************************************************************)
(* The client adapters on their server                                     *)
(***************************************************************************)
\* The adapter class whose stub reaches the server of this run.
ClientOf ==
    CASE svc = "json" -> "JsonLoggerClient"
      [] svc = "file" -> "FileLoggerServiceClient"
      [] svc = "device" -> "DeviceCommunicationClient"

\* The key, register maps and register the adapters of a run use: they
\* share one file or device.
ScopeKeys ==
    CASE svc = "json" -> {"a.ndjson"}
      [] svc = "file" -> {"b.log"}
      [] svc = "device" -> {"dev1"}

ScopeMaps == IF svc = "device" THEN {"map.csv", "empty.csv"} ELSE {"none"}

ScopeRegisters == {"r1"}

\* The adapter is being constructed or is inside its with block.
Active(i) == scopes[i].phase \notin ({"none"} \cup Terminal)

\* The adapter that left its with block last, if it is still remembered.
LastExited(key) ==
    LET last(j) == scopes[j].phase \in Terminal /\ scopes[j].alone /\ scopes[j].key = key
    IN  IF \E j \in ScopeIds : last(j)
        THEN Summary(scopes[CHOOSE j \in ScopeIds : last(j)])
        ELSE NoPrior

\* An adapter's own step leaves the server alone (the responses of earlier
\* calls are dropped, as in every step).
AdapterStep ==
    /\ UNCHANGED <<svc, serial, sessions, file_handle, register_data, lock, nextId,
                   keyOf, acked, pre, scope, cleaned, last_write, server, adapter>>
    /\ th' = [u \in Threads |-> IF th[u].pc = "idle" THEN IdleThread ELSE th[u]]

\* "with JsonLoggerClient(file_path, behavior) as client:" (and the like):
\* __init__ sends Initialize with the mapped behaviour and waits.
ScopeEnter(i, behavior, key, map) ==
    /\ ~Active(i)
    /\ \A j \in ScopeIds : j < i => Active(j)
    /\ key \in ScopeKeys
    /\ map \in ScopeMaps
    /\ LET sent == RequestBehavior(ClientOf, behavior)
           f == [j \in ScopeIds |->
                   IF j = i
                   THEN [UnusedScope EXCEPT
                           !.client = ClientOf, !.phase = "init_call",
                           !.behavior = behavior, !.key = key, !.map = map,
                           !.sent = sent,
                           !.alone = \A k \in ScopeIds \ {i} : ~Active(k),
                           !.prior = IF \A k \in ScopeIds \ {i} : ~Active(k)
                                     THEN LastExited(key) ELSE NoPrior]
                   ELSE IF Active(j)
                   THEN [scopes[j] EXCEPT !.alone = FALSE, !.wrote = FALSE]
                   ELSE UnusedScope]
       IN  \E t \in Threads :
             /\ IF svc = "device"
                THEN Initialize(t, key, sent, map)
                ELSE InitializeFile(t, key, sent)
             /\ scopes' = Taken(f, i, t, th'[t])

\* Inside the with block: client.log_data(...), client.write_register(...),
\* client.read_register(...).  An RpcError of such a call leaves the block.
ScopeOperate(i, op, reg, val) ==
    /\ scopes[i].phase = "open"
    /\ scopes[i].opCode = "none"
    /\ IF svc = "device"
       THEN /\ op \in {"write", "read"}
            /\ reg \in ScopeRegisters
            /\ val \in (IF op = "write" THEN RegisterValues ELSE {0})
       ELSE op = "write" /\ reg = "none" /\ val = 0
    /\ LET f == [scopes EXCEPT ![i].phase = "op_call", ![i].op = op,
                               ![i].reg = reg, ![i].val = val]
       IN  \E t \in Threads :
             /\ IF svc # "device"
                THEN LogMeasurementData(t, scopes[i].session_name)
                ELSE IF op = "write"
                THEN WriteRegister(t, scopes[i].session_name, reg, val)
                ELSE ReadRegister(t, scopes[i].session_name, reg)
             /\ scopes' = Taken(f, i, t, th'[t])

\* The with block is left and the behaviour asks __exit__ to close:
\* close_file() / close() sends Close and waits.
ScopeExitClose(i) ==
    /\ scopes[i].phase = "open"
    /\ ExitCloses(scopes[i].client, scopes[i].behavior, scopes[i].new_session,
                  scopes[i].session_name)
    /\ LET f == [scopes EXCEPT ![i].phase = "close_call", ![i].closeCalls = @ + 1]
       IN  \E t \in Threads :
             /\ IF svc = "device"
                THEN Close(t, scopes[i].session_name)
                ELSE CloseFile(t, scopes[i].session_name)
             /\ scopes' = Taken(f, i, t, th'[t])

\* The with block is left and the behaviour does not ask __exit__ to close.
ScopeExitDetach(i) ==
    /\ scopes[i].phase = "open"
    /\ ~ExitCloses(scopes[i].client, scopes[i].behavior, scopes[i].new_session,
                   scopes[i].session_name)
    /\ AdapterStep
    /\ scopes' = Settle([scopes EXCEPT ![i].phase = "exited", ![i].opCode = "none",
                                       ![i].prior = NoPrior], i)

\* Each server under the calls of client adapters, issued one at a time by
\* adapters whose with blocks may overlap.
NextScope ==
    \/ \E i \in ScopeIds :
         \/ \E behavior \in SessionInitializationBehavior, key \in Keys,
               map \in RegisterMapPaths \cup {"none"} :
              ScopeEnter(i, behavior, key, map)
         \/ \E op \in {"write", "read"}, reg \in RegisterNames \cup {"none"},
               val \in RegisterValues :
              ScopeOperate(i, op, reg, val)
         \/ ScopeExitClose(i)
         \/ ScopeExitDetach(i)
    \/ \E t \in Threads :
         \/ AutoGet(t)
         \/ AutoCheck(t)
         \/ CreateCheck(t)
         \/ CreateCheck2(t)
         \/ CreateOpen(t)
         \/ CreateInsert(t)
         \/ AttachGet(t)
         \/ AttachCheck(t)
         \/ LogGet(t)
         \/ LogWrite(t)
         \/ CloseLookup(t)
         \/ CloseFilePop(t)
         \/ CloseHandle(t)
         \/ CreateUuid(t)
         \/ ValidateSession(t)
         \/ ReadRegisterCheck(t)
         \/ ReadRegisterValue(t)
         \/ WriteRegisterBody(t)
         \/ ClosePop(t)
         \/ CloseData(t)

\* Each server with client adapters, none constructed yet.
InitScope ==
    /\ svc \in Services
    /\ serial = TRUE
    /\ InitCommon
    /\ scopes = [i \in ScopeIds |-> UnusedScope]

SpecScope == InitScope /\ [][NextScope]_vars

(***************************************************************************)
(* Properties                                                              *)
(***************************************************************************)
\* Thread t holds the response of a call of the given kind that has just returned.
Completed(t, op) == th[t].pc = "idle" /\ th[t].op = op /\ th[t].code # "none"

\* The registry, the handles and the register data as they are now.
Now ==
    [sessions |-> sessions, file_handle |-> file_handle, register_data |-> register_data]

\* C1: of the concurrent INITIALIZE_NEW calls for one key that began while no
\* session for the key was registered, exactly one returns success with
\* new_session=true: a call that returns success has no rival that returned
\* success while it was in flight with the key never removed in between.
C1_ExactlyOneCreateWins ==
    \A t \in Threads :
        (Completed(t, "Initialize") /\ RacingCreate(th[t]) /\ th[t].code = "OK" /\ th[t].rnew)
            => ~th[t].rival

\* A session that an InitializeFile has returned, whose handle is open and
\* which no CloseFile is about to close.
Live(n) ==
    /\ keyOf[n] # "none"
    /\ file_handle[n] = "open"
    /\ ~\E t \in Threads : th[t].pc = "close_handle" /\ th[t].session = n

\* C2: in JsonFileLoggerServicer under concurrent calls, each file path has at
\* most one live session at any time.
C2_OneLiveSessionPerPath ==
    svc = "json" =>
        \A k \in FilePaths : Cardinality({n \in Names : keyOf[n] = k /\ Live(n)}) <= 1

\* C3: a registry entry is never replaced by another session, and it is
\* removed only by a Close of that session's name or by clean_up; Initialize
\* leaves existing entries as they are.
C3_InitializeKeepsEntries ==
    [][\A k \in Keys :
          (sessions[k] # None /\ sessions'[k] # sessions[k]) =>
              /\ sessions'[k] = None
              /\ \E t \in Threads :
                    \/ th[t].pc \in {"close_pop", "dclose_pop"} /\ th[t].name = sessions[k]
                    \/ th[t].pc = "cleanup_loop"]_vars

\* C4: with calls one at a time, in JsonFileLoggerServicer and
\* FileLoggerServicer an InitializeFile with INITIALIZE_NEW that has passed the
\* path validation fails with ALREADY_EXISTS on a key with a registered
\* session and leaves that session registered, with its name and an open
\* handle; on a key with no registered session it opens the file, inserts one
\* session under a fresh name and returns new_session=true, unless the open
\* fails, and then nothing has changed.
C4_InitializeNewContract ==
    \A t \in Threads :
        (/\ svc \in {"json", "file"}
         /\ Completed(t, "Initialize")
         /\ th[t].beh = INITIALIZE_NEW
         /\ th[t].valid) =>
            IF pre.sessions[th[t].key] # None
            THEN /\ th[t].code = "ALREADY_EXISTS"
                 /\ Now = pre
                 /\ file_handle[sessions[th[t].key]] = "open"
            ELSE \/ /\ th[t].code = "OK"
                    /\ th[t].rnew
                    /\ th[t].rname \in Names
                    /\ pre.file_handle[th[t].rname] = "none"
                    /\ sessions = [pre.sessions EXCEPT ![th[t].key] = th[t].rname]
                    /\ file_handle = [pre.file_handle EXCEPT ![th[t].rname] = "open"]
                 \/ /\ th[t].code \in {"NOT_FOUND", "PERMISSION_DENIED", "INTERNAL"}
                    /\ Now = pre

\* C4's case: an INITIALIZE_NEW on a registered key has just been refused.
C4_Witness ==
    \E t \in Threads :
        /\ svc \in {"json", "file"}
        /\ Completed(t, "Initialize")
        /\ th[t].beh = INITIALIZE_NEW
        /\ th[t].valid
        /\ pre.sessions[th[t].key] # None
        /\ th[t].code = "ALREADY_EXISTS"

\* C5: with calls one at a time, a valid Initialize with ATTACH_TO_EXISTING
\* returns the registered session's name with new_session=false if and only
\* if a session is registered for the key, fails with NOT_FOUND otherwise, and
\* changes neither the registry nor any session's handle or data.
C5_AttachContract ==
    \A t \in Threads :
        (/\ Completed(t, "Initialize")
         /\ th[t].beh = ATTACH_TO_EXISTING
         /\ th[t].valid) =>
            /\ Now = pre
            /\ IF pre.sessions[th[t].key] # None
               THEN /\ th[t].code = "OK"
                    /\ th[t].rname = pre.sessions[th[t].key]
                    /\ ~th[t].rnew
               ELSE th[t].code = "NOT_FOUND"

\* C6: with calls one at a time, a valid Initialize with AUTO on an
\* unregistered key that succeeds returns new_session=true, and on a
\* registered key (no Close since) it returns the registered name with
\* new_session=false and leaves the registry as it was.
C6_AutoIdempotent ==
    \A t \in Threads :
        (/\ Completed(t, "Initialize")
         /\ th[t].beh = UNSPECIFIED
         /\ th[t].valid) =>
            IF pre.sessions[th[t].key] = None
            THEN th[t].code = "OK" => th[t].rnew
            ELSE /\ th[t].code = "OK"
                 /\ ~th[t].rnew
                 /\ th[t].rname = pre.sessions[th[t].key]
                 /\ sessions = pre.sessions

\* C7: with calls one at a time, a Close with the name of a registered session
\* returns Ack and removes the session; a Close with a name that is not
\* registered (a second Close) fails with NOT_FOUND.
C7_CloseContract ==
    \A t \in Threads :
        Completed(t, "Close") =>
            IF \E k \in Keys : pre.sessions[k] = th[t].name
            THEN /\ th[t].code = "OK"
                 /\ \A k \in Keys : sessions[k] # th[t].name
            ELSE th[t].code = "NOT_FOUND"

\* LogMeasurementData / LogData, ReadRegister and WriteRegister.
OperateOps == {"Operate", "ReadRegister", "WriteRegister"}

\* C8: an Operate that began after a Close of its session name had returned
\* Ack fails with NOT_FOUND, whatever was initialized since; so does an Operate
\* with a name no Initialize returned.  A name, once acknowledged closed, is
\* never in the registry again, and every name handed out is below the next.
C8_ClosedNamesStayClosed ==
    /\ \A t \in Threads :
          (/\ th[t].pc = "idle"
           /\ th[t].op \in OperateOps
           /\ th[t].code # "none"
           /\ (th[t].wasAcked \/ th[t].name = BogusName)) => th[t].code = "NOT_FOUND"
    /\ \A n \in acked : \A k \in Keys : sessions[k] # n
    /\ \A n \in Names : keyOf[n] # "none" => n < nextId

\* C8's case: an Operate on a closed name has just failed with NOT_FOUND while
\* a later session is registered under the key the name had.
C8_Witness ==
    \E t \in Threads :
        /\ th[t].pc = "idle"
        /\ th[t].op \in OperateOps
        /\ th[t].wasAcked
        /\ th[t].code = "NOT_FOUND"
        /\ sessions[keyOf[th[t].name]] # None

\* C9: an Initialize that fails has changed neither the registry nor any
\* handle or register data (with calls one at a time: all is as before the call).
C9_FailedInitializeChangesNothing ==
    \A t \in Threads :
        (Completed(t, "Initialize") /\ th[t].code # "OK") =>
            /\ ~th[t].mutated
            /\ serial => Now = pre

\* C9's case: an Initialize has just failed because the file could not be
\* opened, while another session is registered.
C9_Witness ==
    \E t \in Threads :
        /\ Completed(t, "Initialize")
        /\ th[t].code = "PERMISSION_DENIED"
        /\ \E k \in Keys : sessions[k] # None

\* The table of the five behaviours: the behaviour sent to the server ...
TableBehavior(behavior) ==
    CASE behavior = AUTO -> UNSPECIFIED
      [] behavior = INITIALIZE_SERVER_SESSION -> INITIALIZE_NEW
      [] behavior = ATTACH_TO_SERVER_SESSION -> ATTACH_TO_EXISTING
      [] behavior = INITIALIZE_SESSION_THEN_DETACH -> INITIALIZE_NEW
      [] behavior = ATTACH_TO_SESSION_THEN_CLOSE -> ATTACH_TO_EXISTING

\* ... and whether the scope exit closes the session.
TableCloses(behavior, new_session) ==
    CASE behavior = AUTO -> new_session
      [] behavior = INITIALIZE_SERVER_SESSION -> TRUE
      [] behavior = ATTACH_TO_SERVER_SESSION -> FALSE
      [] behavior = INITIALIZE_SESSION_THEN_DETACH -> FALSE
      [] behavior = ATTACH_TO_SESSION_THEN_CLOSE -> TRUE

\* C10: each of the three client adapters sends the behaviour of the table for
\* each of the five behaviours, and its scope exit calls Close, once and with
\* the scope's session name, exactly when the table says so for the behaviour
\* and the new_session it got; before the exit it calls no Close.
C10_AdaptersFollowTable ==
    scope.client \in Clients =>
        /\ scope.sent = TableBehavior(scope.behavior)
        /\ scope.phase \in {"exited", "exit_failed"} =>
              /\ scope.closeCalls = IF TableCloses(scope.behavior, scope.new_session)
                                    THEN 1 ELSE 0
              /\ scope.closeCalls = 1 => scope.closeName = scope.session_name
        /\ scope.phase \in {"open", "init_failed"} => scope.closeCalls = 0

\* C10's case: a DeviceCommunicationClient scope opened with AUTO that got
\* new_session=true has exited and closed its session.
C10_Witness ==
    /\ scope.client = "DeviceCommunicationClient"
    /\ scope.phase = "exited"
    /\ scope.behavior = AUTO
    /\ scope.new_session
    /\ scope.closeCalls = 1

\* C11: a client adapter opened with INITIALIZE_SERVER_SESSION (INITIALIZE_NEW
\* in the request) calls Close on exit whatever new_session was; when it was
\* alone and a write of its with block succeeded, its key has no session
\* after the exit, and an Initialize with ATTACH_TO_EXISTING on the same key
\* that follows, if the server accepts its arguments, fails with NOT_FOUND.
C11_InitializeNewScopeCloses ==
    \A i \in DOMAIN scopes :
        LET s == scopes[i]
        IN  /\ (s.behavior = INITIALIZE_SERVER_SESSION
                    /\ s.phase \in {"exited", "exit_failed"}) => s.closeCalls = 1
            /\ (s.behavior = INITIALIZE_SERVER_SESSION /\ s.phase \in {"exited", "exit_failed"}
                    /\ s.alone /\ s.wrote) =>
                   (s.phase = "exited" /\ sessions[s.key] = None)
            /\ (s.sent = ATTACH_TO_EXISTING /\ s.alone
                    /\ s.prior.behavior = INITIALIZE_SERVER_SESSION
                    /\ s.prior.wrote
                    /\ \E t \in Threads : Completed(t, "Initialize") /\ th[t].valid) =>
                   (s.phase = "init_failed" /\ s.error = "NOT_FOUND")

\* C11's case: after an INITIALIZE_SERVER_SESSION adapter that wrote and
\* left its with block, an adapter attaching to the same key has got
\* NOT_FOUND from its Initialize.
C11_Witness ==
    \E i \in DOMAIN scopes :
        /\ scopes[i].sent = ATTACH_TO_EXISTING
        /\ scopes[i].alone
        /\ scopes[i].prior.behavior = INITIALIZE_SERVER_SESSION
        /\ scopes[i].prior.wrote
        /\ scopes[i].prior.phase = "exited"
        /\ scopes[i].phase = "init_failed"
        /\ scopes[i].error = "NOT_FOUND"

\* C12: a client adapter opened with AUTO on a key that had no session gets
\* new_session=true; an AUTO adapter that got new_session=true calls Close on
\* exit and, when it was alone, leaves its key with no session; an AUTO
\* adapter on the same key that follows gets new_session=true again and
\* another session name; an AUTO adapter that got new_session=false calls no
\* Close and, when it was alone, leaves its session registered.
C12_AutoScopeContract ==
    \A i \in DOMAIN scopes :
        LET s == scopes[i]
            auto == s.behavior = AUTO /\ s.alone
        IN  /\ (auto /\ s.phase = "open"
                    /\ \E t \in Threads : /\ Completed(t, "Initialize")
                                          /\ th[t].startEntry = None) =>
                   s.new_session
            /\ (s.behavior = AUTO /\ s.new_session
                    /\ s.phase \in {"exited", "exit_failed"}) =>
                   /\ s.closeCalls = 1
                   /\ s.alone => sessions[s.key] = None
            /\ (auto /\ s.phase = "open"
                    /\ s.prior.behavior = AUTO /\ s.prior.new_session
                    /\ \E t \in Threads : Completed(t, "Initialize")) =>
                   (s.new_session /\ s.session_name # s.prior.session_name)
            /\ (s.behavior = AUTO /\ ~s.new_session
                    /\ s.phase \in {"exited", "exit_failed"}) =>
                   /\ s.phase = "exited"
                   /\ s.closeCalls = 0
                   /\ s.alone => sessions[s.key] = s.session_name

\* C12's case: after an AUTO adapter that created its session and left its
\* with block, a second AUTO adapter on the same key has created again.
C12_Witness ==
    \E i \in DOMAIN scopes :
        /\ scopes[i].behavior = AUTO
        /\ scopes[i].alone
        /\ scopes[i].phase = "open"
        /\ scopes[i].new_session
        /\ scopes[i].prior.behavior = AUTO
        /\ scopes[i].prior.new_session
        /\ scopes[i].prior.phase = "exited"
        /\ scopes[i].session_name # scopes[i].prior.session_name

\* The adapter left a session registered for the next one to attach to: it
\* was opened with INITIALIZE_SESSION_THEN_DETACH, or with AUTO and attached.
LeftShared(prior) ==
    /\ prior.phase = "exited"
    /\ \/ prior.behavior = INITIALIZE_SESSION_THEN_DETACH
       \/ prior.behavior = AUTO /\ ~prior.new_session

\* C13: an adapter opened with INITIALIZE_SESSION_THEN_DETACH calls no Close
\* on exit and leaves its session registered; an AUTO adapter on the same key
\* that follows it (or follows such an AUTO adapter) gets the same session
\* name with new_session=false and calls no Close on exit; an
\* ATTACH_TO_SESSION_THEN_CLOSE adapter that follows gets the same session
\* name too, calls Close on exit and leaves the key with no session.
C13_SetupMeasureTeardown ==
    \A i \in DOMAIN scopes :
        LET s == scopes[i]
            answered == \E t \in Threads : Completed(t, "Initialize") /\ th[t].valid
        IN  /\ (s.behavior = INITIALIZE_SESSION_THEN_DETACH /\ s.phase = "exited") =>
                   /\ s.closeCalls = 0
                   /\ s.alone => sessions[s.key] = s.session_name
            /\ (s.behavior \in {AUTO, ATTACH_TO_SESSION_THEN_CLOSE} /\ s.alone
                    /\ LeftShared(s.prior) /\ answered) =>
                   /\ s.phase = "open"
                   /\ s.session_name = s.prior.session_name
                   /\ ~s.new_session
            /\ (s.behavior = AUTO /\ ~s.new_session /\ s.phase = "exited") =>
                   s.closeCalls = 0
            /\ (s.behavior = ATTACH_TO_SESSION_THEN_CLOSE
                    /\ s.phase \in {"exited", "exit_failed"}) =>
                   /\ s.closeCalls = 1
                   /\ s.alone => sessions[s.key] = None

\* C14: while clean_up holds the lock the registry stays as it is; in the
\* step in which clean_up returns, the registry becomes empty and every
\* session that was registered has its handle closed (device: its register
\* data empty); an Operate or Close that begins after a clean_up has removed
\* its session name fails with NOT_FOUND.
C14_CleanUpClosesAll ==
    /\ [][\A t \in Threads :
            /\ (th[t].pc = "cleanup_loop" /\ th'[t].pc = "cleanup_loop") =>
                   sessions' = sessions
            /\ (th[t].pc = "cleanup_loop" /\ th'[t].pc = "idle") =>
                   /\ \A k \in Keys : sessions'[k] = None
                   /\ \A k \in SessionsKeys :
                         IF svc = "device"
                         THEN register_data'[sessions[k]] = EmptyDict
                         ELSE file_handle'[sessions[k]] = "closed"]_vars
    /\ [](\A t \in Threads :
            (/\ th[t].pc = "idle"
             /\ th[t].op \in OperateOps \cup {"Close"}
             /\ th[t].code # "none"
             /\ th[t].wasCleaned) => th[t].code = "NOT_FOUND")

\* C15: when the Close that an adapter's __exit__ issued fails, __exit__
\* raises with that status; it returns normally only when the Close returned
\* Ack or none was due.  Every Close the server receives comes from the exit
\* of an adapter whose behaviour and new_session ask for it, and an adapter
\* whose behaviour does not ask for it has issued none.
C15_CloseFailurePropagates ==
    /\ \A t \in Threads :
          Completed(t, "Close") =>
              \E i \in DOMAIN scopes :
                  /\ scopes[i].session_name = th[t].name
                  /\ scopes[i].closeCalls = 1
                  /\ scopes[i].phase = IF th[t].code = "OK" THEN "exited" ELSE "exit_failed"
                  /\ th[t].code # "OK" => scopes[i].error = th[t].code
    /\ \A t \in Threads :
          th[t].op = "Close" =>
              \E i \in DOMAIN scopes :
                  /\ scopes[i].phase # "none"
                  /\ scopes[i].session_name = th[t].name
                  /\ scopes[i].closeCalls = 1
                  /\ TableCloses(scopes[i].behavior, scopes[i].new_session)
    /\ \A i \in DOMAIN scopes :
          /\ scopes[i].phase = "exit_failed" => scopes[i].error # "none"
          /\ (/\ scopes[i].phase # "none"
              /\ ~TableCloses(scopes[i].behavior, scopes[i].new_session)) =>
                 scopes[i].closeCalls = 0

\* C15's case: the Close of an adapter's exit has failed with NOT_FOUND,
\* another adapter having closed the session, and __exit__ has raised.
C15_Witness ==
    \E i \in DOMAIN scopes :
        /\ scopes[i].phase = "exit_failed"
        /\ scopes[i].error = "NOT_FOUND"
        /\ ~scopes[i].alone
        /\ \E t \in Threads : /\ Completed(t, "Close")
                              /\ th[t].name = scopes[i].session_name
                              /\ th[t].code = "NOT_FOUND"

\* C16: of the concurrent AUTO calls for one key that began while no session
\* for the key was registered, one creates and the others attach: a call
\* that has a rival which returned new_session=true while it was in flight,
\* with the key never removed in between, returns, when it succeeds, the
\* registered session with new_session=false.
C16_ExactlyOneAutoCreates ==
    \A t \in Threads :
        (/\ Completed(t, "Initialize")
         /\ RacingAuto(th[t])
         /\ th[t].rival
         /\ th[t].code = "OK") =>
            /\ ~th[t].rnew
            /\ th[t].rname = sessions[th[t].key]

\* C17: in JsonFileLoggerServicer the session that CloseFile(s) has removed
\* from the registry, and whose file handle it is about to close, is the
\* session named s.
C17_CloseRemovesNamedSession ==
    svc = "json" =>
        \A t \in Threads :
            th[t].pc = "close_handle" => th[t].session = th[t].name

\* C18: in JsonFileLoggerServicer every Close returns Ack or fails with
\* NOT_FOUND, never with INTERNAL, and no Close returns Ack for a session
\* name for which a Close has returned Ack before.
C18_ConcurrentCloseOnceAck ==
    /\ [](svc = "json" =>
            \A t \in Threads :
                Completed(t, "Close") => th[t].code \in {"OK", "NOT_FOUND"})
    /\ [][svc = "json" =>
            \A t \in Threads :
                (/\ th[t].op = "Close"
                 /\ InFlight(t)
                 /\ th'[t].pc = "idle"
                 /\ th'[t].code = "OK") => th[t].name \notin acked]_vars

\* C19: in JsonFileLoggerServicer, whenever no RPC is in flight, every file
\* handle that is open is the handle of a session in the registry.
C19_HandlesOwnedByRegistry ==
    (svc = "json" /\ \A t \in Threads : th[t].pc = "idle") =>
        \A n \in Names :
            file_handle[n] = "open" => \E k \in Keys : sessions[k] = n

Registered(n) == \E k \in Keys : sessions[k] = n

C22_LiveWhileRegistered ==
    \A t \in Threads :
        (/\ svc = "device"
         /\ Completed(t, "Initialize")
         /\ th[t].valid
         /\ th[t].beh \in {UNSPECIFIED, INITIALIZE_NEW, ATTACH_TO_EXISTING}
         /\ pre.sessions[th[t].key] # None) =>
            /\ sessions[th[t].key] = pre.sessions[th[t].key]
            /\ IF th[t].beh = INITIALIZE_NEW
               THEN th[t].code = "ALREADY_EXISTS"
               ELSE /\ th[t].code = "OK"
                    /\ th[t].rname = pre.sessions[th[t].key]
                    /\ th[t].rnew = FALSE

\* C23: when start_server's shutdown sequence (clean_up, unregister_service,
\* server.stop, wait_for_termination) has completed, no session is left in
\* the registry and no handle or register data of a session is left open.
C23_ShutdownReleasesAll ==
    server = "stopped" =>
        /\ \A k \in Keys : sessions[k] = None
        /\ \A n \in Names : file_handle[n] # "open" /\ register_data[n] = EmptyDict

\* C24: the DeviceCommunicationClient of client_session follows its __exit__
\* docstring: a scope opened with INITIALIZE_SESSION_THEN_DETACH has called no
\* Close when it has exited, and a scope opened with
\* ATTACH_TO_SESSION_THEN_CLOSE or INITIALIZE_SERVER_SESSION has called Close.
C24_ClientSessionExitPolicy ==
    (/\ scope.client = "client_session.DeviceCommunicationClient"
     /\ scope.phase \in {"exited", "exit_failed"}) =>
        /\ scope.behavior = INITIALIZE_SESSION_THEN_DETACH => scope.closeCalls = 0
        /\ scope.behavior \in {ATTACH_TO_SESSION_THEN_CLOSE, INITIALIZE_SERVER_SESSION}
              => scope.closeCalls = 1

\* The (behaviour, new_session) pairs a broker can return.
BrokerReturns(behavior, new_session) ==
    CASE behavior = AUTO -> TRUE
      [] behavior \in {INITIALIZE_SERVER_SESSION, INITIALIZE_SESSION_THEN_DETACH} ->
           new_session
      [] behavior \in {ATTACH_TO_SERVER_SESSION, ATTACH_TO_SESSION_THEN_CLOSE} ->
           ~new_session

\* C25: the FileLoggerServiceClient of example_measurement, whose __exit__
\* decides on the pair (new_session, behaviour), has called Close on exit
\* exactly when the close-on-exit table says so, for every pair of behaviour
\* and new_session that a broker can return.
C25_ExampleExitMatchesTable ==
    (/\ scope.client = "example_measurement.FileLoggerServiceClient"
     /\ scope.phase \in {"exited", "exit_failed"}
     /\ BrokerReturns(scope.behavior, scope.new_session)) =>
        /\ scope.closeCalls = IF TableCloses(scope.behavior, scope.new_session)
                              THEN 1 ELSE 0
        /\ scope.closeCalls = 1 => scope.closeName = scope.session_name

\* A scope of that adapter has attached with ATTACH_TO_SESSION_THEN_CLOSE
\* (new_session=false) and closed the session on exit.
C25_Witness ==
    /\ scope.client = "example_measurement.FileLoggerServiceClient"
    /\ scope.phase = "exited"
    /\ scope.behavior = ATTACH_TO_SESSION_THEN_CLOSE
    /\ ~scope.new_session
    /\ scope.closeCalls = 1

\* C26: in JsonFileLoggerServicer and DeviceCommServicer, under any
\* interleaving of calls and for every register map, a Close that returns an
\* error has left the registry as it was: a Close that has removed a registry
\* entry returns Ack.
C26_FailedCloseRemovesNothing ==
    svc \in LockedServices =>
        \A t \in Threads :
            (Completed(t, "Close") /\ th[t].code # "OK") => ~th[t].mutated

\* C27: in DeviceCommServicer a WriteRegister on a live session (registered,
\* with register data) for a register name that is not in the session's
\* register map fails with NOT_FOUND and leaves the session's register data
\* unchanged: the register names of a session never grow.
C27_WriteUnknownRegisterFails ==
    [][\A t \in Threads :
         (/\ svc = "device"
          /\ th[t].pc = "write_body"
          /\ Registered(th[t].session)
          /\ DOMAIN last_write[th[t].session] # {}
          /\ th[t].reg \notin DOMAIN last_write[th[t].session])
         => /\ th'[t].pc = "idle" => th'[t].code = "NOT_FOUND"
            /\ register_data' = register_data]_vars

\* C28: in DeviceCommServicer the validation failures of an operation on a
\* live session reach the caller with their own category: a ReadRegister of a
\* register name the session does not have fails with NOT_FOUND, a GPIO
\* operation with an invalid channel, port, mask or state fails with
\* INVALID_ARGUMENT; neither is reported as INTERNAL.
C28_ValidationKeepsCategory ==
    [][\A t \in Threads :
         /\ (/\ th[t].pc = "read_check"
             /\ Registered(th[t].session)
             /\ DOMAIN register_data[th[t].session] # {}
             /\ th[t].reg \notin DOMAIN register_data[th[t].session]
             /\ th'[t].pc = "idle")
            => th'[t].code = "NOT_FOUND"
         /\ (/\ th[t].pc = "gpio_check"
             /\ Registered(th[t].session)
             /\ th[t].args # "ok"
             /\ th'[t].pc = "idle")
            => th'[t].code = "INVALID_ARGUMENT"]_vars

\* C29: in JsonFileLoggerServicer.LogMeasurementData, when the write to the
\* session's file raises a permission error the call fails with
\* PERMISSION_DENIED; when it raises another error the call fails with INTERNAL.
C29_WriteFailureCategory ==
    svc = "json" =>
        \A t \in Threads :
            (Completed(t, "Operate") /\ th[t].raised # "none") =>
                th[t].code = IF th[t].raised = "PermissionError"
                             THEN "PERMISSION_DENIED"
                             ELSE "INTERNAL"

\* C30: in both LoggerServiceServicer variants, with calls executed one at a
\* time, an InitializeFile with INITIALIZE_NEW on a file name that has an open
\* session fails with ALREADY_EXISTS and leaves the existing file handle
\* registered under that name and open.
C30_InitializeNewKeepsOpenSession ==
    svc \in LoggerServices =>
        \A t \in Threads :
            (/\ Completed(t, "Initialize")
             /\ th[t].beh = INITIALIZE_NEW
             /\ th[t].startEntry # None
             /\ pre.file_handle[th[t].startEntry] = "open")
            => /\ th[t].code = "ALREADY_EXISTS"
               /\ sessions[th[t].key] = th[t].startEntry
               /\ file_handle[th[t].startEntry] = "open"

\* C31: for every client adapter variant, over any interleaving of calls made
\* through one client instance, the discovery service is resolved at most
\* once, before the first RPC, and every RPC is made on the stub that
\* resolution gave.
C31_StubResolvedOnceAndReused ==
    adapter.client # "none" =>
        /\ adapter.resolved <= 1
        /\ \A t \in Threads :
             adapter.caller[t].pc = "rpc" =>
                 /\ adapter.caller[t].got = 1
                 /\ adapter.stub = 1

\* C32: an Operate call (LogMeasurementData; ReadRegister, WriteRegister and
\* the GPIO operations), whether it succeeds or fails, never changes the
\* registry: no statement of such a call adds, removes or replaces an entry.
C32_OperateKeepsRegistry ==
    [][\A t \in Threads :
          (/\ th'[t].pc # th[t].pc
           /\ (IF th[t].pc = "idle" THEN th'[t].op ELSE th[t].op)
                  \in OperateOps \cup GpioOps)
          => sessions' = sessions]_vars

\* A WriteRegister has returned OK and changed the register data of a session
\* that is registered.
C32_Witness ==
    \E t \in Threads :
        /\ Completed(t, "WriteRegister")
        /\ th[t].code = "OK"
        /\ th[t].mutated
        /\ \E k \in Keys : sessions[k] = th[t].name

\* C33: under any interleaving, no statement of an Initialize for a key k or
\* of a Close of a session of key k adds, removes or replaces the registry
\* entry of another key, or closes the handle (empties the register data) of
\* a session registered under another key.
C33_OtherKeysUntouched ==
    [][\A t \in Threads :
          LET call == IF th[t].pc = "idle" THEN th'[t] ELSE th[t]
              k == IF call.op = "Initialize" THEN call.key
                   ELSE IF call.name \in Names THEN keyOf[call.name]
                   ELSE "none"
          IN  (th'[t].pc # th[t].pc /\ call.op \in {"Initialize", "Close"}) =>
                  \A other \in Keys \ {k} :
                      /\ sessions'[other] = sessions[other]
                      /\ sessions[other] # None =>
                            /\ file_handle'[sessions[other]] = file_handle[sessions[other]]
                            /\ register_data'[sessions[other]] = register_data[sessions[other]]]_vars

\* A Close has returned Ack while a session of another key is registered
\* with its handle open.
C33_Witness ==
    \E t \in Threads :
        /\ Completed(t, "Close")
        /\ th[t].code = "OK"
        /\ \E other \in Keys \ {keyOf[th[t].name]} :
              /\ sessions[other] # None
              /\ file_handle[sessions[other]] = "open"

\* C34: when adapter scopes that use the AUTO behaviour on the same key have
\* obtained the same session name, the session stays registered as long as
\* one of them is inside its with block, and no Operate issued inside that
\* block fails with NOT_FOUND.
C34_SharedAutoSessionStaysOpen ==
    \A i \in ScopeIds : \A j \in ScopeIds \ {i} :
        (/\ scopes[i].phase \in {"open", "op_call"}
         /\ scopes[i].behavior = AUTO
         /\ scopes[j].behavior = AUTO
         /\ scopes[j].key = scopes[i].key
         /\ scopes[i].session_name # None
         /\ scopes[j].session_name = scopes[i].session_name)
        => /\ scopes[i].opCode # "NOT_FOUND"
           /\ \E k \in Keys : sessions[k] = scopes[i].session_name

====
